---- MODULE Spec2Model ----
(***************************************************************************)
(* Model of the multimodal emotion session of sevenpercent-app:            *)
(*   - the useMultimodalAI hook (session coordinator),                     *)
(*   - FaceEmotionService (facial analysis loop),                          *)
(*   - VoiceAnalysisService (vocal analysis loop, transcription lifecycle),*)
(*   - combineEmotions (emotion fusion).                                   *)
(*                                                                         *)
(* Confidences are fixed-point numbers: the integer c stands for the real  *)
(* number c / One.  Inputs are whole percents, so every product with the   *)
(* weights 0.55, 0.38 and the boost 1.2 is exact.                          *)
(***************************************************************************)
EXTENDS Integers, Sequences, FiniteSets, TLC

\* The JavaScript value null, where an object is expected.
NULL == [null |-> TRUE]

\* The JavaScript value null, where a string is expected.
NullStr == "<null>"

\* Fixed-point unit: the confidence 1.0.
One == 100 * 1000

\* A confidence given in whole percents.
Pct(p) == p * 1000

Min(a, b) == IF a <= b THEN a ELSE b

Max(a, b) == IF a >= b THEN a ELSE b

----------------------------------------------------------------------------
(* combineEmotions                                                         *)

\* facialWeight = 0.55 and voiceWeight = 0.38, in hundredths.
facialWeight == 55

voiceWeight == 38

\* c * w for a weight w given in hundredths.
Weighted(c, w) == (c * w) \div 100

\* (x) * 1.2
Boost(x) == (x * 12) \div 10

MutCombineNoBoostClamp(facial, voice) ==
    IF facial = NULL /\ voice = NULL THEN NULL
    ELSE IF facial = NULL
        THEN [emotion |-> voice.emotion, confidence |-> voice.confidence]
    ELSE IF voice = NULL
        THEN [emotion |-> facial.dominant, confidence |-> facial.confidence]
    ELSE IF facial.dominant = voice.emotion
        THEN [emotion |-> facial.dominant,
              confidence |-> Boost(Weighted(facial.confidence, facialWeight)
                                   + Weighted(voice.confidence, voiceWeight))]
    ELSE IF Weighted(facial.confidence, facialWeight)
              >= Weighted(voice.confidence, voiceWeight)
        THEN [emotion |-> facial.dominant,
              confidence |-> Weighted(facial.confidence, facialWeight)]
    ELSE [emotion |-> voice.emotion,
          confidence |-> Weighted(voice.confidence, voiceWeight)]

MutCombineStrictTie(facial, voice) ==
    IF facial = NULL /\ voice = NULL THEN NULL
    ELSE IF facial = NULL
        THEN [emotion |-> voice.emotion, confidence |-> voice.confidence]
    ELSE IF voice = NULL
        THEN [emotion |-> facial.dominant, confidence |-> facial.confidence]
    ELSE IF facial.dominant = voice.emotion
        THEN [emotion |-> facial.dominant,
              confidence |-> Min(One,
                  Boost(Weighted(facial.confidence, facialWeight)
                        + Weighted(voice.confidence, voiceWeight)))]
    ELSE IF Weighted(facial.confidence, facialWeight)
              > Weighted(voice.confidence, voiceWeight)
        THEN [emotion |-> facial.dominant,
              confidence |-> Weighted(facial.confidence, facialWeight)]
    ELSE [emotion |-> voice.emotion,
          confidence |-> Weighted(voice.confidence, voiceWeight)]

MutCombineWeightSingle(facial, voice) ==
    IF facial = NULL /\ voice = NULL THEN NULL
    ELSE IF facial = NULL
        THEN [emotion |-> voice.emotion,
              confidence |-> Weighted(voice.confidence, voiceWeight)]
    ELSE IF voice = NULL
        THEN [emotion |-> facial.dominant,
              confidence |-> Weighted(facial.confidence, facialWeight)]
    ELSE IF facial.dominant = voice.emotion
        THEN [emotion |-> facial.dominant,
              confidence |-> Min(One,
                  Boost(Weighted(facial.confidence, facialWeight)
                        + Weighted(voice.confidence, voiceWeight)))]
    ELSE IF Weighted(facial.confidence, facialWeight)
              >= Weighted(voice.confidence, voiceWeight)
        THEN [emotion |-> facial.dominant,
              confidence |-> Weighted(facial.confidence, facialWeight)]
    ELSE [emotion |-> voice.emotion,
          confidence |-> Weighted(voice.confidence, voiceWeight)]

combineEmotions(facial, voice) ==
    IF facial = NULL /\ voice = NULL THEN NULL
    ELSE IF facial = NULL
        THEN [emotion |-> voice.emotion, confidence |-> voice.confidence]
    ELSE IF voice = NULL
        THEN [emotion |-> facial.dominant, confidence |-> facial.confidence]
    ELSE IF facial.dominant = voice.emotion
        THEN [emotion |-> facial.dominant,
              confidence |-> Min(One,
                  Boost(Weighted(facial.confidence, facialWeight)
                        + Weighted(voice.confidence, voiceWeight)))]
    ELSE IF Weighted(facial.confidence, facialWeight)
              >= Weighted(voice.confidence, voiceWeight)
        THEN [emotion |-> facial.dominant,
              confidence |-> Weighted(facial.confidence, facialWeight)]
    ELSE [emotion |-> voice.emotion,
          confidence |-> Weighted(voice.confidence, voiceWeight)]

----------------------------------------------------------------------------
(* Input domains of the fusion function                                    *)

\* Labels of the face model (type Emotion) and of the voice classifier
\* (type VoiceEmotion).
Emotion == {"happy", "sad", "angry", "fearful", "neutral", "surprised", "disgusted"}

VoiceEmotion == {"happy", "sad", "angry", "fearful", "neutral"}

\* Confidence grid of the fusion check, in percents; it holds 0 and 1, pairs
\* with equal weighted scores (0.55 * 0.38 = 0.38 * 0.55) and values whose
\* boosted sum exceeds 1.
FusionPercents == {0, 38, 50, 55, 76, 90, 100}

FusionFacial ==
    {NULL} \cup {[dominant |-> l, confidence |-> Pct(p)] :
                    l \in Emotion, p \in FusionPercents}

FusionVoice ==
    {NULL} \cup {[emotion |-> l, confidence |-> Pct(p)] :
                    l \in VoiceEmotion, p \in FusionPercents}

----------------------------------------------------------------------------
(* Bounds of the model                                                     *)

\* Longest message sequence.
MaxMessages == 2

\* Most backend calls outstanding at once.
MaxPending == 1

\* Most facial loop chains (detections in flight plus pending timers).
MaxFaceChains == 2

\* Most restart timers of the recognizer pending at once.
MaxRestartTimers == 2

\* Most replaced recognizer objects that still owe their 'end' event.
MaxOrphans == 1

\* Most backend calls outstanding at once where sends overlap.
MaxOverlap == 2

----------------------------------------------------------------------------
(* State                                                                   *)

VARIABLES
    hook,           \* state and refs of one useMultimodalAI instance
    face,           \* the FaceEmotionService singleton
    voice,          \* the VoiceAnalysisService singleton
    env,            \* browser side: recognizer, timers, backend calls
    last,           \* the operation of the last step and what it did
    disposed,       \* dispose was called, and no initialize or start* since
    everDisposed,   \* dispose was called on this instance
    fuseFacial,     \* argument facial of the last direct combineEmotions call
    fuseVoice,      \* argument voice of that call
    fuseResult,     \* its result
    vocal,          \* a VoiceAnalysisService seen alone: its vocal loop
    samplesRead,    \* audio frames above the energy gate read so far
    vocalOut,       \* the last operation on that service and what it did
    stdValues,      \* argument of the last direct calculateStdDev call
    stdResult,      \* its result
    clsMetrics,     \* argument of the last direct detectEmotion call
    clsResult,      \* its result
    chat,           \* the conversation seen alone: messages and closures
    chatOut,        \* the last operation on the conversation and its request
    pitchInput,     \* arguments of the last direct detectPitch call
    pitchResult,    \* its result
    demo,           \* the Demo page seen alone: its state, renders and waits
    demoOut         \* the last operation on the page and what it did

sessionVars == <<hook, face, voice, env, last, disposed, everDisposed>>

fusionVars == <<fuseFacial, fuseVoice, fuseResult>>

vocalVars == <<vocal, samplesRead, vocalOut>>

stdDevVars == <<stdValues, stdResult>>

classifierVars == <<clsMetrics, clsResult>>

chatVars == <<chat, chatOut>>

pitchVars == <<pitchInput, pitchResult>>

demoVars == <<demo, demoOut>>

vars ==
    <<hook, face, voice, env, last, disposed, everDisposed,
      fuseFacial, fuseVoice, fuseResult, vocal, samplesRead, vocalOut,
      stdValues, stdResult, clsMetrics, clsResult, chat, chatOut,
      pitchInput, pitchResult, demo, demoOut>>

\* The whole session as one value, so that a handler is a function from
\* session to session and handlers compose as the calls do in the code.
\* Its field out records what the handlers did during the current step: whether
\* the operation threw to its caller, how often recognition.start() was
\* invoked, how many backend requests were issued and how many facial and
\* vocal estimates were handed to the hook's callbacks; arg is the text or
\* transcript segment the step was called with, estimate the estimate handed
\* to a callback (null when none was) and score the top per-label score of the
\* detection that completed (0 when it found no face or threw).
NoArg == [text |-> <<>>, isFinal |-> FALSE]

NoOutput ==
    [threw |-> FALSE, recStarts |-> 0, requests |-> 0,
     facialEmits |-> 0, voiceEmits |-> 0, arg |-> NoArg,
     estimate |-> NULL, score |-> 0]

World ==
    [hook |-> hook, face |-> face, voice |-> voice, env |-> env,
     out |-> NoOutput]

\* The calls that start the session or one of its loops.
StartCalls == {"initialize", "startFaceDetection", "startListening"}

\* The step of operation op ends in session w.
Commit(op, w) ==
    /\ hook' = w.hook
    /\ face' = w.face
    /\ voice' = w.voice
    /\ env' = w.env
    /\ last' = [op |-> op,
                again |-> (op = "dispose" /\ last.op = "dispose"),
                threw |-> w.out.threw,
                recStarts |-> w.out.recStarts,
                requests |-> w.out.requests,
                facialEmits |-> w.out.facialEmits,
                voiceEmits |-> w.out.voiceEmits,
                arg |-> w.out.arg,
                estimate |-> w.out.estimate,
                score |-> w.out.score]
    /\ disposed' = IF op = "dispose" THEN TRUE
                   ELSE IF op \in StartCalls THEN FALSE
                   ELSE disposed
    /\ everDisposed' = (everDisposed \/ op = "dispose")
    /\ UNCHANGED <<fusionVars, vocalVars, stdDevVars, classifierVars,
                   chatVars, pitchVars,
                   demoVars>>

----------------------------------------------------------------------------
(* FaceEmotionService                                                      *)

\* config.minConfidence || 0.5, in percents
minConfidence == 50

FaceServiceInit ==
    [isInitialized |-> FALSE,       \* models loaded
     isDetecting |-> FALSE,
     videoElement |-> FALSE,        \* videoElement # null
     onEmotionCallback |-> FALSE,   \* onEmotionCallback # null
     detectionInterval |-> FALSE,   \* the handle names a pending timer
     lostTimers |-> 0,              \* pending timers whose handle was overwritten
     inFlight |-> 0]                \* detectSingleFace calls awaiting completion

\* Object.entries order of emotionScores in processExpressions.
EmotionOrder ==
    <<"happy", "sad", "angry", "fearful", "neutral", "surprised", "disgusted">>

RECURSIVE DominantFrom(_, _, _, _)
\* The loop of processExpressions from index i on, with the running maximum.
DominantFrom(expressions, i, dominant, maxScore) ==
    IF i > Len(EmotionOrder) THEN [dominant |-> dominant, confidence |-> maxScore]
    ELSE IF expressions[EmotionOrder[i]] > maxScore
        THEN DominantFrom(expressions, i + 1, EmotionOrder[i],
                          expressions[EmotionOrder[i]])
    ELSE DominantFrom(expressions, i + 1, dominant, maxScore)

processExpressions(expressions) == DominantFrom(expressions, 1, "neutral", 0)

FaceService_stopDetection(w) ==
    [w EXCEPT !.face.isDetecting = FALSE,
              !.face.detectionInterval = FALSE]

FaceService_dispose(w) ==
    LET w1 == FaceService_stopDetection(w)
    IN  [w1 EXCEPT !.face.videoElement = FALSE,
                   !.face.onEmotionCallback = FALSE]

\* runDetectionLoop up to its await: returns at once when the loop is not
\* running or there is no video element, else issues one detection.
FaceService_runDetectionLoop(w) ==
    IF ~w.face.isDetecting \/ ~w.face.videoElement THEN w
    ELSE [w EXCEPT !.face.inFlight = @ + 1]

\* startDetection with the models loaded (the hook calls it only after its
\* own await of initialize()).  Without a video element the returned promise
\* rejects; nobody awaits it.
FaceService_startDetection(w) ==
    IF ~w.face.videoElement THEN w
    ELSE IF w.face.isDetecting THEN w
    ELSE FaceService_runDetectionLoop([w EXCEPT !.face.isDetecting = TRUE])

\* window.setTimeout(() => this.runDetectionLoop(), ...) stored in
\* detectionInterval: a timer still pending under the old handle is lost.
FaceService_scheduleNext(w) ==
    [w EXCEPT !.face.lostTimers = IF w.face.detectionInterval THEN @ + 1 ELSE @,
              !.face.detectionInterval = TRUE]

\* Loop chains alive: each is either awaiting its detection or its timer.
FaceChains(f) ==
    f.inFlight + f.lostTimers + (IF f.detectionInterval THEN 1 ELSE 0)

----------------------------------------------------------------------------
(* Texts                                                                   *)

\* A text is a sequence of characters; " " is the only whitespace used.  The
\* texts given to the session: empty, whitespace only, plain, and plain inside
\* whitespace.
Texts == {<<>>, <<" ">>, <<" ", "a", " ">>}

RECURSIVE TrimStart(_)
TrimStart(t) == IF t # <<>> /\ Head(t) = " " THEN TrimStart(Tail(t)) ELSE t

RECURSIVE TrimEnd(_)
TrimEnd(t) ==
    IF t # <<>> /\ t[Len(t)] = " " THEN TrimEnd(SubSeq(t, 1, Len(t) - 1)) ELSE t

\* String.prototype.trim
Trim(t) == TrimEnd(TrimStart(t))

\* data.response of the backend
ReplyText == <<"r">>

----------------------------------------------------------------------------
(* useMultimodalAI: state and event handlers                               *)

ErrNotInitialized == "Services not initialized. Call initialize() first."

ErrInitialize == "Failed to initialize"

ErrSend == "Failed to send message"

HookInit ==
    [messages |-> <<>>,
     currentTranscript |-> <<>>,
     isListening |-> FALSE,
     isProcessing |-> FALSE,
     emotionState |-> [facial |-> NULL, voice |-> NULL, combined |-> NULL],
     error |-> NullStr,
     isInitialized |-> FALSE,
     isCameraActive |-> FALSE,
     isMicActive |-> FALSE,
     isFaceDetectionActive |-> FALSE,
     faceServiceRef |-> FALSE,      \* faceServiceRef.current # null
     voiceServiceRef |-> FALSE,     \* voiceServiceRef.current # null
     latestEmotionRef |-> [facial |-> NULL, voice |-> NULL, combined |-> NULL],
     initPc |-> "idle"]             \* where a running initialize() is suspended

MutOnEmotionStaleVoice(w, result) ==
    [w EXCEPT !.hook.emotionState =
        [facial |-> result,
         voice |-> @.voice,
         combined |-> combineEmotions(result, w.hook.latestEmotionRef.voice)]]

\* The callback given to faceService.onEmotion.
onEmotion(w, result) ==
    [w EXCEPT !.hook.emotionState =
        [facial |-> result,
         voice |-> @.voice,
         combined |-> combineEmotions(result, @.voice)]]

\* The updater without its "...prev".
MutOnVoiceEmotionDropsFacial(w, result) ==
    [w EXCEPT !.hook.emotionState =
        [facial |-> NULL,
         voice |-> result,
         combined |-> combineEmotions(NULL, result)]]

\* The callback given to voiceService.onVoiceEmotion.
onVoiceEmotion(w, result) ==
    [w EXCEPT !.hook.emotionState =
        [facial |-> @.facial,
         voice |-> result,
         combined |-> combineEmotions(@.facial, result)]]

\* sendMessage up to its await of the backend call.
sendMessage(w, text) ==
    IF Trim(text) = <<>> THEN w
    ELSE [w EXCEPT
            !.hook.isProcessing = TRUE,
            !.hook.error = NullStr,
            !.hook.messages = Append(@,
                [role |-> "user",
                 content |-> Trim(text),
                 emotionContext |->
                    [facial |-> w.hook.latestEmotionRef.facial,
                     voice |-> w.hook.latestEmotionRef.voice]]),
            !.env.backendCalls = @ + 1,
            !.out.requests = @ + 1]

MutOnTranscriptionKeepText(w, result) ==
    LET w1 == [w EXCEPT !.hook.currentTranscript = result.text]
    IN  IF result.isFinal /\ Trim(result.text) # <<>>
        THEN sendMessage(w1, Trim(result.text))
        ELSE w1

\* The callback given to voiceService.onTranscription.
onTranscription(w, result) ==
    LET w1 == [w EXCEPT !.hook.currentTranscript = result.text]
    IN  IF result.isFinal /\ Trim(result.text) # <<>>
        THEN [sendMessage(w1, Trim(result.text))
                EXCEPT !.hook.currentTranscript = <<>>]
        ELSE w1

----------------------------------------------------------------------------
(* VoiceAnalysisService                                                    *)

VoiceServiceInit ==
    [isListening |-> FALSE,
     isTranscribing |-> FALSE,
     analysisInterval |-> FALSE,        \* the handle names a pending timer
     lostTimers |-> 0,                  \* pending timers whose handle was overwritten
     analyser |-> FALSE,                \* analyser # null
     recognition |-> FALSE,             \* recognition # null
     onVoiceEmotionCallback |-> FALSE,  \* onVoiceEmotionCallback # null
     onTranscriptionCallback |-> FALSE] \* onTranscriptionCallback # null

\* The browser: whether it has a SpeechRecognition constructor, the state of
\* the recognizer object held in recognition ("idle", "running", or
\* "stopping": stop() was called and 'end' is still to come), the replaced
\* recognizer objects that still owe their 'end' event, the pending restart
\* timers of recognition.onend and the backend calls awaiting their reply.
EnvInit(supported) ==
    [speechSupported |-> supported,
     recState |-> "idle",
     orphans |-> 0,
     restartTimers |-> 0,
     backendCalls |-> 0]

\* recognition.start(): an InvalidStateError unless the recognizer is idle.
RecStartThrows(w) == w.env.recState # "idle"

RecStart(w) ==
    IF RecStartThrows(w) THEN [w EXCEPT !.out.recStarts = @ + 1]
    ELSE [w EXCEPT !.env.recState = "running", !.out.recStarts = @ + 1]

\* recognition.stop()
RecStop(w) ==
    IF w.env.recState = "running" THEN [w EXCEPT !.env.recState = "stopping"]
    ELSE w

\* The recognizer object in recognition is dropped or replaced: when it is
\* not idle it lives on until its 'end' event.
RecOrphan(w) ==
    IF w.voice.recognition /\ w.env.recState # "idle"
    THEN [w EXCEPT !.env.orphans = @ + 1, !.env.recState = "idle"]
    ELSE [w EXCEPT !.env.recState = "idle"]

\* initialize(stream), when no constructor throws.
VoiceService_initialize(w) ==
    LET w1 == [w EXCEPT !.voice.analyser = TRUE]
    IN  IF w.env.speechSupported
        THEN [RecOrphan(w1) EXCEPT !.voice.recognition = TRUE]
        ELSE w1

\* One input of the vocal loop: the audio frame's energy against the gate
\* 0.1 and, for a frame above it, the result of detectEmotion.
VocalSilence == [energyHigh |-> FALSE]

VocalFrame(e, p) == [energyHigh |-> TRUE, emotion |-> e, confidence |-> Pct(p)]

VoiceService_runAnalysisLoop(w, a) ==
    IF ~w.voice.isListening \/ ~w.voice.analyser THEN w
    ELSE LET w1 == IF a.energyHigh /\ w.voice.onVoiceEmotionCallback
                   THEN onVoiceEmotion(
                            [w EXCEPT !.out.voiceEmits = @ + 1,
                                      !.out.estimate =
                                        [emotion |-> a.emotion,
                                         confidence |-> a.confidence]],
                            [emotion |-> a.emotion, confidence |-> a.confidence])
                   ELSE w
         IN  [w1 EXCEPT
                !.voice.lostTimers = IF w.voice.analysisInterval THEN @ + 1 ELSE @,
                !.voice.analysisInterval = TRUE]

VoiceService_startListening(w, a) ==
    IF w.voice.isListening THEN w
    ELSE VoiceService_runAnalysisLoop([w EXCEPT !.voice.isListening = TRUE], a)

VoiceService_startTranscription(w) ==
    IF w.voice.isTranscribing THEN w
    ELSE IF ~w.voice.recognition THEN w
    ELSE IF RecStartThrows(w)
        THEN [RecStart(w) EXCEPT !.voice.isTranscribing = FALSE]
    ELSE RecStart([w EXCEPT !.voice.isTranscribing = TRUE])

\* stopListening without its clearTimeout.
MutStopListeningKeepsTimer(w) ==
    [w EXCEPT !.voice.isListening = FALSE]

VoiceService_stopListening(w) ==
    [w EXCEPT !.voice.isListening = FALSE,
              !.voice.analysisInterval = FALSE]

VoiceService_stopTranscription(w) ==
    LET w1 == [w EXCEPT !.voice.isTranscribing = FALSE]
    IN  IF w.voice.recognition THEN RecStop(w1) ELSE w1

VoiceService_dispose(w) ==
    LET w1 == VoiceService_stopTranscription(VoiceService_stopListening(w))
    IN  [RecOrphan(w1) EXCEPT !.voice.analyser = FALSE,
                              !.voice.recognition = FALSE]

\* recognition.onend
Recognition_onend(w) ==
    IF w.voice.isTranscribing /\ w.voice.recognition
    THEN [w EXCEPT !.env.restartTimers = @ + 1]
    ELSE w

MutRestartNoFlagCheck(w) ==
    IF w.voice.recognition THEN RecStart(w) ELSE w

\* The timer callback of onend; a throw of start() is caught.
Recognition_restart(w) ==
    IF w.voice.isTranscribing
    THEN IF w.voice.recognition THEN RecStart(w) ELSE w
    ELSE w

----------------------------------------------------------------------------
(* useMultimodalAI: controls                                               *)

startFaceDetection(w) ==
    IF ~w.hook.isInitialized
    THEN [w EXCEPT !.hook.error = ErrNotInitialized]
    ELSE [(IF w.hook.faceServiceRef THEN FaceService_startDetection(w) ELSE w)
            EXCEPT !.hook.isFaceDetectionActive = TRUE]

stopFaceDetection(w) ==
    [(IF w.hook.faceServiceRef THEN FaceService_stopDetection(w) ELSE w)
        EXCEPT !.hook.isFaceDetectionActive = FALSE]

\* a is the audio frame read by the first tick, which startListening of the
\* service runs before it returns.
startListening(w, a) ==
    IF ~w.hook.isInitialized
    THEN [w EXCEPT !.hook.error = ErrNotInitialized]
    ELSE [(IF w.hook.voiceServiceRef
           THEN VoiceService_startTranscription(VoiceService_startListening(w, a))
           ELSE w)
            EXCEPT !.hook.isListening = TRUE]

MutStopListeningStopsFace(w) ==
    LET w1 == stopFaceDetection(w)
    IN  [(IF w1.hook.voiceServiceRef
          THEN VoiceService_stopTranscription(VoiceService_stopListening(w1))
          ELSE w1)
            EXCEPT !.hook.isListening = FALSE]

stopListening(w) ==
    [(IF w.hook.voiceServiceRef
      THEN VoiceService_stopTranscription(VoiceService_stopListening(w))
      ELSE w)
        EXCEPT !.hook.isListening = FALSE]

clearMessages(w) ==
    [w EXCEPT !.hook.messages = <<>>,
              !.hook.currentTranscript = <<>>,
              !.hook.error = NullStr]

\* Calling a method on the null ref is a TypeError.
MutDisposeUnguarded(w) ==
    LET w1 == stopFaceDetection(stopListening(w))
        w2 == IF w1.hook.faceServiceRef
              THEN [FaceService_dispose(w1) EXCEPT !.hook.faceServiceRef = FALSE]
              ELSE [w1 EXCEPT !.out.threw = TRUE]
    IN  IF w2.out.threw THEN w2
        ELSE [(IF w2.hook.voiceServiceRef
               THEN [VoiceService_dispose(w2) EXCEPT !.hook.voiceServiceRef = FALSE]
               ELSE w2)
                EXCEPT !.hook.isInitialized = FALSE,
                       !.hook.isCameraActive = FALSE,
                       !.hook.isMicActive = FALSE,
                       !.hook.isFaceDetectionActive = FALSE]

dispose(w) ==
    LET w1 == stopFaceDetection(stopListening(w))
        w2 == IF w1.hook.faceServiceRef
              THEN [FaceService_dispose(w1) EXCEPT !.hook.faceServiceRef = FALSE]
              ELSE w1
        w3 == IF w2.hook.voiceServiceRef
              THEN [VoiceService_dispose(w2) EXCEPT !.hook.voiceServiceRef = FALSE]
              ELSE w2
    IN  [w3 EXCEPT !.hook.isInitialized = FALSE,
                   !.hook.isCameraActive = FALSE,
                   !.hook.isMicActive = FALSE,
                   !.hook.isFaceDetectionActive = FALSE]

----------------------------------------------------------------------------
(* useMultimodalAI: initialize                                             *)

\* initialize up to "await faceService.initialize()".
initialize_call(w) ==
    [w EXCEPT !.hook.error = NullStr, !.hook.initPc = "awaitFace"]

\* The catch block without its "throw err".
MutCatchSwallows(w) ==
    [w EXCEPT !.hook.error = ErrInitialize,
              !.hook.initPc = "idle"]

\* The catch block of initialize: the error is recorded and rethrown.
initialize_catch(w) ==
    [w EXCEPT !.hook.error = ErrInitialize,
              !.hook.initPc = "idle",
              !.out.threw = TRUE]

\* From the models being loaded up to "await voiceService.initialize()";
\* voiceOk tells whether the synchronous body of that call completed.
initialize_afterFace(w, voiceOk) ==
    LET w1 == [w EXCEPT !.face.isInitialized = TRUE,
                        !.face.videoElement = TRUE,
                        !.face.onEmotionCallback = TRUE,
                        !.hook.faceServiceRef = TRUE,
                        !.hook.isCameraActive = TRUE]
    IN  IF voiceOk
        THEN [VoiceService_initialize(w1) EXCEPT !.hook.initPc = "awaitVoice"]
        ELSE initialize_catch(w1)

\* From the voice service being initialized to the end of initialize.
initialize_afterVoice(w) ==
    LET w1 == [w EXCEPT !.voice.onVoiceEmotionCallback = TRUE,
                        !.voice.onTranscriptionCallback = TRUE,
                        !.hook.voiceServiceRef = TRUE,
                        !.hook.isMicActive = TRUE,
                        !.hook.isInitialized = TRUE,
                        !.hook.initPc = "idle"]
    IN  [FaceService_startDetection(w1) EXCEPT !.hook.isFaceDetectionActive = TRUE]

----------------------------------------------------------------------------
(* Inputs of the session                                                   *)

Scores(h, s, n) ==
    [x \in Emotion |->
        CASE x = "happy" -> Pct(h)
          [] x = "sad" -> Pct(s)
          [] x = "neutral" -> Pct(n)
          [] OTHER -> 0]

Segments == [text : Texts, isFinal : BOOLEAN]

\* The session stays within the bounds of the model.
WithinBounds(w) ==
    /\ Len(w.hook.messages) <= MaxMessages
    /\ w.env.backendCalls <= MaxPending
    /\ FaceChains(w.face) <= MaxFaceChains
    /\ w.env.restartTimers <= MaxRestartTimers
    /\ w.env.orphans <= MaxOrphans

\* A step of operation op that ends in session w.
Step(op, w) ==
    /\ WithinBounds(w)
    /\ Commit(op, w)

----------------------------------------------------------------------------
(* Actions: calls of the hook's controls                                   *)

Initialize ==
    /\ hook.initPc = "idle"
    /\ Step("initialize", initialize_call(World))

StartFaceDetection ==
    LET w == startFaceDetection(World)
    IN  /\ WithinBounds(w)
        /\ Commit("startFaceDetection", w)

StopFaceDetection ==
    LET w == stopFaceDetection(World)
    IN  /\ WithinBounds(w)
        /\ Commit("stopFaceDetection", w)

StartListening(frames) ==
    \E a \in frames :
        /\ WithinBounds(startListening(World, a))
        /\ Commit("startListening", startListening(World, a))

StopListening ==
    LET w == stopListening(World)
    IN  /\ WithinBounds(w)
        /\ Commit("stopListening", w)

SendMessage(texts) ==
    \E t \in texts :
        LET w == sendMessage(
                    [World EXCEPT !.out.arg = [text |-> t, isFinal |-> FALSE]], t)
        IN  /\ WithinBounds(w)
            /\ Commit("sendMessage", w)

ClearMessages ==
    LET w == clearMessages(World)
    IN  /\ WithinBounds(w)
        /\ Commit("clearMessages", w)

Dispose ==
    LET w == dispose(World)
    IN  /\ WithinBounds(w)
        /\ Commit("dispose", w)

(* Actions: completions, timers and events                                 *)

\* faceService.initialize() resolves and initialize runs on to its second
\* await, or into its catch block when voiceService.initialize throws.
FaceModelsLoaded ==
    /\ hook.initPc = "awaitFace"
    /\ \E voiceOk \in BOOLEAN :
          Step("initialize:faceReady", initialize_afterFace(World, voiceOk))

\* Loading the models fails: faceService.initialize() rejects.
FaceModelsFailed ==
    /\ hook.initPc = "awaitFace"
    /\ ~face.isInitialized
    /\ Step("initialize:faceFailed", initialize_catch(World))

VoiceInitialized ==
    /\ hook.initPc = "awaitVoice"
    /\ Step("initialize:voiceReady", initialize_afterVoice(World))

\* The loop without the test of result.confidence.
MutDetectionDoneNoThreshold(w, d) ==
    LET result == processExpressions(d.expressions)
        w1 == [w EXCEPT !.face.inFlight = @ - 1,
                        !.out.score = IF d.kind = "face" THEN result.confidence
                                      ELSE 0]
        w2 == IF d.kind = "face" /\ w.face.onEmotionCallback
              THEN onEmotion([w1 EXCEPT !.out.facialEmits = @ + 1,
                                        !.out.estimate =
                                            [dominant |-> result.dominant,
                                             confidence |-> result.confidence]],
                             [dominant |-> result.dominant,
                              confidence |-> result.confidence])
              ELSE w1
    IN  FaceService_scheduleNext(w2)

\* runDetectionLoop from the completion of its detection call.
FaceService_detectionDone(w, d) ==
    LET result == processExpressions(d.expressions)
        w1 == [w EXCEPT !.face.inFlight = @ - 1,
                        !.out.score = IF d.kind = "face" THEN result.confidence
                                      ELSE 0]
        w2 == IF d.kind = "face"
                 /\ result.confidence >= Pct(minConfidence)
                 /\ w.face.onEmotionCallback
              THEN onEmotion([w1 EXCEPT !.out.facialEmits = @ + 1,
                                        !.out.estimate =
                                            [dominant |-> result.dominant,
                                             confidence |-> result.confidence]],
                             [dominant |-> result.dominant,
                              confidence |-> result.confidence])
              ELSE w1
    IN  FaceService_scheduleNext(w2)

DetectionDone(outcomes) ==
    /\ face.inFlight > 0
    /\ \E d \in outcomes :
          Step("detectionDone", FaceService_detectionDone(World, d))

\* The timer named by detectionInterval fires.
FaceTimerFires ==
    /\ face.detectionInterval
    /\ Step("faceTimer",
            FaceService_runDetectionLoop(
                [World EXCEPT !.face.detectionInterval = FALSE]))

\* A timer whose handle was overwritten fires.
FaceLostTimerFires ==
    /\ face.lostTimers > 0
    /\ Step("faceLostTimer",
            FaceService_runDetectionLoop(
                [World EXCEPT !.face.lostTimers = @ - 1]))

\* The timer named by analysisInterval fires.
VoiceTimerFires(frames) ==
    /\ voice.analysisInterval
    /\ \E a \in frames :
          Step("voiceTimer",
               VoiceService_runAnalysisLoop(
                   [World EXCEPT !.voice.analysisInterval = FALSE], a))

\* recognition.onresult
Recognition_onresult(w, seg) ==
    IF w.voice.onTranscriptionCallback THEN onTranscription(w, seg) ELSE w

\* A recognizer that is running or stopping, the current or a replaced one,
\* delivers a result.
RecognizerResult(segments) ==
    /\ env.recState # "idle" \/ env.orphans > 0
    /\ \E seg \in segments :
          Step("recognizerResult",
               Recognition_onresult([World EXCEPT !.out.arg = seg], seg))

\* The recognizer held in recognition ends, by itself or after stop().
RecognizerEnded ==
    /\ env.recState # "idle"
    /\ Step("recognizerEnded",
            Recognition_onend([World EXCEPT !.env.recState = "idle"]))

\* A replaced recognizer ends; its handlers are those of the service.
OrphanEnded ==
    /\ env.orphans > 0
    /\ Step("orphanEnded",
            Recognition_onend([World EXCEPT !.env.orphans = @ - 1]))

RestartTimerFires ==
    /\ env.restartTimers > 0
    /\ Step("restartTimer",
            Recognition_restart([World EXCEPT !.env.restartTimers = @ - 1]))

\* setMessages((prev) => [assistantMessage, ...prev])
MutReplyPrepends(w, ok) ==
    LET w1 == [w EXCEPT !.env.backendCalls = @ - 1]
        w2 == IF ok
              THEN [w1 EXCEPT !.hook.messages =
                        <<[role |-> "assistant",
                           content |-> ReplyText,
                           emotionContext |-> NULL]>> \o @]
              ELSE [w1 EXCEPT !.hook.error = ErrSend]
    IN  [w2 EXCEPT !.hook.isProcessing = FALSE]

\* The catch block without the finally block.
MutReplyKeepsProcessing(w, ok) ==
    LET w1 == [w EXCEPT !.env.backendCalls = @ - 1]
    IN  IF ok
        THEN [w1 EXCEPT !.hook.messages = Append(@,
                            [role |-> "assistant",
                             content |-> ReplyText,
                             emotionContext |-> NULL]),
                        !.hook.isProcessing = FALSE]
        ELSE [w1 EXCEPT !.hook.error = ErrSend]

\* sendMessage from the reply of the backend to its end: ok tells whether the
\* call returned a response; it did not when it returned an error or threw.
sendMessage_reply(w, ok) ==
    LET w1 == [w EXCEPT !.env.backendCalls = @ - 1]
        w2 == IF ok
              THEN [w1 EXCEPT !.hook.messages = Append(@,
                        [role |-> "assistant",
                         content |-> ReplyText,
                         emotionContext |-> NULL])]
              ELSE [w1 EXCEPT !.hook.error = ErrSend]
    IN  [w2 EXCEPT !.hook.isProcessing = FALSE]

BackendReply ==
    /\ env.backendCalls > 0
    /\ \E ok \in BOOLEAN :
          Step(IF ok THEN "backendReply" ELSE "backendFailed",
               sendMessage_reply(World, ok))

\* The session stays within the bounds of the model where sends overlap.
WithinOverlapBounds(w) ==
    /\ Len(w.hook.messages) <= MaxMessages
    /\ w.env.backendCalls <= MaxOverlap
    /\ FaceChains(w.face) <= MaxFaceChains
    /\ w.env.restartTimers <= MaxRestartTimers
    /\ w.env.orphans <= MaxOrphans

\* A call of sendMessage, also while earlier backend calls are outstanding.
OverlapSendMessage ==
    \E t \in Texts :
        LET w == sendMessage(
                    [World EXCEPT !.out.arg = [text |-> t, isFinal |-> FALSE]], t)
        IN  /\ WithinOverlapBounds(w)
            /\ Commit("sendMessage", w)

\* The recognizer delivers a result, also while backend calls are outstanding.
OverlapRecognizerResult ==
    /\ env.recState # "idle" \/ env.orphans > 0
    /\ \E seg \in Segments :
          LET w == Recognition_onresult([World EXCEPT !.out.arg = seg], seg)
          IN  /\ WithinOverlapBounds(w)
              /\ Commit("recognizerResult", w)

\* One of the outstanding backend calls returns.
OverlapBackendReply ==
    /\ env.backendCalls > 0
    /\ \E ok \in BOOLEAN :
          LET w == sendMessage_reply(World, ok)
          IN  /\ WithinOverlapBounds(w)
              /\ Commit(IF ok THEN "backendReply" ELSE "backendFailed", w)

\* React renders and runs the effect that copies emotionState into
\* latestEmotionRef.
Render ==
    /\ hook.latestEmotionRef # hook.emotionState
    /\ Step("render", [World EXCEPT !.hook.latestEmotionRef = hook.emotionState])

----------------------------------------------------------------------------
(* VoiceAnalysisService: the vocal loop with its histories                 *)

\* Most frames above the energy gate fed to the vocal loop.
MaxSamples == 21

\* The cap of pitchHistory and volumeHistory in runAnalysisLoop.
historyCap == 20

\* A service after initialize(stream) and onVoiceEmotion(callback).
VocalServiceInit ==
    [isListening |-> FALSE,
     analysisInterval |-> FALSE,        \* the handle names a pending timer
     pitchHistory |-> <<>>,
     volumeHistory |-> <<>>,
     analyser |-> TRUE,
     onVoiceEmotionCallback |-> TRUE]

\* The frames are told apart by their arrival: the k-th frame above the gate
\* has pitch PitchOf(k) and volume VolumeOf(k).
PitchOf(k) == 100 + k

VolumeOf(k) == k

\* The energies of the frames, in hundredths: silence, the gate 0.1 itself,
\* just above the gate and well above it.
VocalEnergies == {0, 10, 11, 50}

\* What one tick meets: a frame of some energy, a throw of analyzeAudio, or a
\* frame whose emission callback throws when it is called.
VocalTicks ==
    {[kind |-> "frame", energy |-> e] : e \in VocalEnergies}
    \cup {[kind |-> "extractThrows", energy |-> 0],
          [kind |-> "callbackThrows", energy |-> 50]}

\* No tick ran.
NoTick == [kind |-> "none", energy |-> 0]

NoVocalOutput(op) ==
    [op |-> op, emitted |-> FALSE, threw |-> FALSE, tick |-> NoTick]

\* The service with the position in its input and the effects of the step.
VocalWorld ==
    [svc |-> vocal, read |-> samplesRead, out |-> NoVocalOutput("none")]

\* values.push(x); if (values.length > 20) values.shift()
MutPushEvictsNewest(values, x) ==
    IF Len(values) + 1 > historyCap THEN values ELSE Append(values, x)

PushCapped(values, x) ==
    IF Len(values) + 1 > historyCap THEN Tail(Append(values, x))
    ELSE Append(values, x)

\* The energy gate of runAnalysisLoop: metrics.energy > 0.1
energyGate == 10

\* The loop without its energy gate.
MutLoopNoEnergyGate(v, tick) ==
    IF ~v.svc.isListening \/ ~v.svc.analyser THEN v
    ELSE IF tick.kind = "extractThrows"
        THEN [v EXCEPT !.out.threw = TRUE, !.out.tick = tick]
    ELSE LET k == v.read + 1
             v1 == [v EXCEPT
                      !.out.tick = tick,
                      !.read = k,
                      !.svc.pitchHistory = PushCapped(@, PitchOf(k)),
                      !.svc.volumeHistory = PushCapped(@, VolumeOf(k))]
         IN  IF ~v1.svc.onVoiceEmotionCallback
             THEN [v1 EXCEPT !.svc.analysisInterval = TRUE]
             ELSE IF tick.kind = "callbackThrows"
             THEN [v1 EXCEPT !.out.threw = TRUE]
             ELSE [v1 EXCEPT !.out.emitted = TRUE,
                             !.svc.analysisInterval = TRUE]

\* runAnalysisLoop.  Nothing catches a throw: it leaves the function before
\* the setTimeout that schedules the next tick.
Vocal_runAnalysisLoop(v, tick) ==
    IF ~v.svc.isListening \/ ~v.svc.analyser THEN v
    ELSE IF tick.kind = "extractThrows"
        THEN [v EXCEPT !.out.threw = TRUE, !.out.tick = tick]
    ELSE IF ~(tick.energy > energyGate)
        THEN [v EXCEPT !.out.tick = tick, !.svc.analysisInterval = TRUE]
    ELSE LET k == v.read + 1
             v1 == [v EXCEPT
                      !.out.tick = tick,
                      !.read = k,
                      !.svc.pitchHistory = PushCapped(@, PitchOf(k)),
                      !.svc.volumeHistory = PushCapped(@, VolumeOf(k))]
         IN  IF ~v1.svc.onVoiceEmotionCallback
             THEN [v1 EXCEPT !.svc.analysisInterval = TRUE]
             ELSE IF tick.kind = "callbackThrows"
             THEN [v1 EXCEPT !.out.threw = TRUE]
             ELSE [v1 EXCEPT !.out.emitted = TRUE,
                             !.svc.analysisInterval = TRUE]

\* startListening without the two assignments that empty the histories.
MutStartKeepsHistories(v, tick) ==
    IF v.svc.isListening THEN v
    ELSE Vocal_runAnalysisLoop([v EXCEPT !.svc.isListening = TRUE], tick)

Vocal_startListening(v, tick) ==
    IF v.svc.isListening THEN v
    ELSE Vocal_runAnalysisLoop(
            [v EXCEPT !.svc.isListening = TRUE,
                      !.svc.pitchHistory = <<>>,
                      !.svc.volumeHistory = <<>>], tick)

Vocal_stopListening(v) ==
    [v EXCEPT !.svc.isListening = FALSE,
              !.svc.analysisInterval = FALSE]

\* The step of operation op on the service ends in v.
VocalCommit(op, v) ==
    /\ vocal' = v.svc
    /\ samplesRead' = v.read
    /\ vocalOut' = [v.out EXCEPT !.op = op]
    /\ UNCHANGED <<sessionVars, fusionVars, stdDevVars, classifierVars,
                   chatVars, pitchVars,
                   demoVars>>

VocalStartListening ==
    \E tick \in VocalTicks :
        LET v == Vocal_startListening(VocalWorld, tick)
        IN  /\ v.read <= MaxSamples
            /\ VocalCommit("startListening", v)

VocalStopListening ==
    LET v == Vocal_stopListening(VocalWorld)
    IN  /\ v.read <= MaxSamples
        /\ VocalCommit("stopListening", v)

\* The timer named by analysisInterval fires.
VocalTimerFires ==
    /\ vocal.analysisInterval
    /\ \E tick \in VocalTicks :
          LET v == Vocal_runAnalysisLoop(
                      [VocalWorld EXCEPT !.svc.analysisInterval = FALSE], tick)
          IN  /\ v.read <= MaxSamples
              /\ VocalCommit("tick", v)

\* The result of a function that has not been called yet.
NotCalled == [called |-> FALSE]

----------------------------------------------------------------------------
(* IEEE 754 double arithmetic                                              *)

\* A double d that is 0 or lies in [2^-4, 4) is the integer d * 2^56, held as
\* hi * 2^28 + lo with 0 <= lo < 2^28.  Its 53-bit significand makes it a
\* multiple of Ulp(hi).
TwoP28 == 268435456

D0 == [hi |-> 0, lo |-> 0]

\* The doubles nearest to 0.1, 0.2, 0.3 and 0.4, then 0.5 and 1.
D01 == [hi |-> 26843545, lo |-> 161061274]

D02 == [hi |-> 53687091, lo |-> 53687092]

D03 == [hi |-> 80530636, lo |-> 214748364]

D04 == [hi |-> 107374182, lo |-> 107374184]

D05 == [hi |-> 134217728, lo |-> 0]

D1 == [hi |-> TwoP28, lo |-> 0]

\* The spacing of the doubles in the binade of hi * 2^28, in units of 2^-56.
Ulp(hi) ==
    IF hi >= 2 * TwoP28 THEN 32
    ELSE IF hi >= TwoP28 THEN 16
    ELSE IF hi >= TwoP28 \div 2 THEN 8
    ELSE IF hi >= TwoP28 \div 4 THEN 4
    ELSE IF hi >= TwoP28 \div 8 THEN 2
    ELSE 1

\* Round to nearest, ties to even, of the exact value
\* hi * 2^28 + lo + remNum / remDen, where 0 <= remNum < remDen.
DRound(hi, lo, remNum, remDen) ==
    LET u == Ulp(hi)
        r == lo % u
        below == r * remDen + remNum
        up == \/ 2 * below > u * remDen
              \/ 2 * below = u * remDen /\ (lo \div u) % 2 = 1
        lo2 == lo - r + (IF up THEN u ELSE 0)
    IN  IF lo2 = TwoP28 THEN [hi |-> hi + 1, lo |-> 0]
        ELSE [hi |-> hi, lo |-> lo2]

\* a + b
DAdd(a, b) ==
    LET lo == a.lo + b.lo
    IN  DRound(a.hi + b.hi + (lo \div TwoP28), lo % TwoP28, 0, 1)

\* a / n for a small positive integer n
DDiv(a, n) ==
    LET q1 == a.hi \div n
        r1 == a.hi % n
        q2 == (r1 * TwoP28 + a.lo) \div n
        r2 == (r1 * TwoP28 + a.lo) % n
    IN  DRound(q1, q2, r2, n)

\* a > b
DGreater(a, b) == a.hi > b.hi \/ (a.hi = b.hi /\ a.lo > b.lo)

\* The double d to the nearest tenth.
DToTenths(d) == ((d.hi \div 1024) * 10 + 131072) \div 262144

----------------------------------------------------------------------------
(* VoiceAnalysisService: calculateStdDev                                   *)

\* Longest window given to a direct calculateStdDev call.
MaxWindow == 3

\* The samples of those windows: 0.1, 0.2, 0.3, 0.4 and 0.5.
StdSamples == {D01, D02, D03, D04, D05}

RECURSIVE DSum(_, _, _)
\* values.reduce((a, b) => a + b, 0) from index i on, with accumulator acc
DSum(values, i, acc) ==
    IF i > Len(values) THEN acc
    ELSE DSum(values, i + 1, DAdd(acc, values[i]))

\* The mean of calculateStdDev.
DMean(values) == DDiv(DSum(values, 1, D0), Len(values))

\* calculateStdDev, up to the sign of its result: "zero" or "positive".  Each
\* squared difference from the mean is a double that is 0 exactly when the
\* value equals the mean (none underflows at these magnitudes), so their sum,
\* its quotient by the length and the square root are 0 exactly when every
\* value equals the mean.
calculateStdDev(values) ==
    IF Len(values) = 0 THEN "zero"
    ELSE IF \A i \in 1..Len(values) : values[i] = DMean(values) THEN "zero"
    ELSE "positive"

StdWindows ==
    UNION {[1..n -> StdSamples] : n \in 0..MaxWindow}

\* One direct call calculateStdDev(values).
CallStdDev ==
    /\ \E values \in StdWindows :
          /\ stdValues' = values
          /\ stdResult' = calculateStdDev(values)
    /\ UNCHANGED <<sessionVars, fusionVars, vocalVars, classifierVars,
                   chatVars, pitchVars,
                   demoVars>>

----------------------------------------------------------------------------
(* VoiceAnalysisService: detectEmotion                                     *)

\* Object.entries order of scores in detectEmotion.
VoiceOrder == <<"happy", "sad", "angry", "fearful", "neutral">>

\* VoiceMetrics: pitch in Hz, volume and energy in hundredths, pitchVariation
\* in Hz; volumeVariation and speechRate are not read by detectEmotion.
Metrics(pitch, volume, pitchVariation, energy) ==
    [pitch |-> pitch, volume |-> volume,
     pitchVariation |-> pitchVariation, energy |-> energy]

\* scores[label] += d
Inc(scores, label, d) == [scores EXCEPT ![label] = DAdd(@, d)]

\* The four pitch rules.
PitchRules(m, s0) ==
    LET s1 == IF m.pitch >= 200 /\ m.pitch <= 400
              THEN Inc(s0, "happy", D03) ELSE s0
        s2 == IF m.pitch >= 150 /\ m.pitch <= 350 /\ m.volume > 70
              THEN Inc(s1, "angry", D03) ELSE s1
        s3 == IF m.pitch >= 100 /\ m.pitch <= 200
              THEN Inc(s2, "sad", D03) ELSE s2
    IN  IF m.pitch >= 180 /\ m.pitch <= 350
        THEN Inc(s3, "fearful", D02) ELSE s3

VolumeRules(m, s0) ==
    IF m.volume > 70 THEN Inc(Inc(s0, "angry", D02), "happy", D01)
    ELSE IF m.volume < 30 THEN Inc(Inc(s0, "sad", D03), "fearful", D01)
    ELSE s0

VariationRules(m, s0) ==
    IF m.pitchVariation > 40 THEN Inc(Inc(s0, "angry", D02), "fearful", D02)
    ELSE IF m.pitchVariation > 25 THEN Inc(s0, "happy", D02)
    ELSE IF m.pitchVariation < 15 THEN Inc(Inc(s0, "sad", D02), "neutral", D01)
    ELSE s0

EnergyRules(m, s0) ==
    IF m.energy > 60 THEN Inc(Inc(s0, "angry", D02), "happy", D01)
    ELSE IF m.energy < 30 THEN Inc(s0, "sad", D02)
    ELSE s0

InitialScores ==
    [x \in VoiceEmotion |-> IF x = "neutral" THEN D03 ELSE D0]

RECURSIVE DominantVoiceFrom(_, _, _, _)
\* The loop over Object.entries(scores) from index i on.
DominantVoiceFrom(scores, i, dominantEmotion, maxScore) ==
    IF i > Len(VoiceOrder)
    THEN [emotion |-> dominantEmotion,
          confidence |-> IF DGreater(maxScore, D1) THEN D1 ELSE maxScore]
    ELSE IF DGreater(scores[VoiceOrder[i]], maxScore)
        THEN DominantVoiceFrom(scores, i + 1, VoiceOrder[i],
                               scores[VoiceOrder[i]])
    ELSE DominantVoiceFrom(scores, i + 1, dominantEmotion, maxScore)

MutDetectEmotionNoVariation(metrics) ==
    DominantVoiceFrom(
        EnergyRules(metrics,
            VolumeRules(metrics, PitchRules(metrics, InitialScores))),
        1, "neutral", D0)

detectEmotion(metrics) ==
    DominantVoiceFrom(
        EnergyRules(metrics,
            VariationRules(metrics,
                VolumeRules(metrics, PitchRules(metrics, InitialScores)))),
        1, "neutral", D0)

\* The feature vectors of the direct detectEmotion calls: values on both
\* sides of every threshold of the rules.
ClassifierMetrics ==
    {Metrics(p, v, pv, e) :
        p \in {0, 100, 150, 180, 200, 300, 350, 400, 450},
        v \in {20, 30, 50, 70, 80},
        pv \in {10, 15, 25, 30, 40, 50},
        e \in {20, 30, 50, 60, 70}}

\* One direct call detectEmotion(metrics), the only one of its behaviour: the
\* function keeps no state between calls.
CallDetectEmotion ==
    /\ clsMetrics = NotCalled
    /\ \E metrics \in ClassifierMetrics :
          /\ clsMetrics' = metrics
          /\ clsResult' = detectEmotion(metrics)
    /\ UNCHANGED <<sessionVars, fusionVars, vocalVars, stdDevVars,
                   chatVars, pitchVars,
                   demoVars>>

----------------------------------------------------------------------------
(* VoiceAnalysisService: detectPitch                                       *)

\* Length of the time-domain buffers given to detectPitch: the
\* frequencyBinCount of an analyser with fftSize 128.
PitchBufferLen == 64

\* audioContext.sampleRate: the lowest rate every AudioContext supports, a
\* rate whose shortest lag no longer fits the buffer, and the default.
PitchSampleRates == {8000, 16000, 44100}

\* floatData[i] = (timeData[i] - 128) / 128, as the integer floatData[i] * 128.
\* The quotient is exact in a Float32Array, and so are the products and the
\* sums of detectPitch in double arithmetic: a correlation is held as the
\* integer correlation * 128 * 128.
FloatSample(byte) == byte - 128

RECURSIVE CorrelationFrom(_, _, _, _)
\* The inner loop of detectPitch from index i on (indices from 1).
CorrelationFrom(timeData, lag, i, correlation) ==
    IF ~(i <= Len(timeData) - lag) THEN correlation
    ELSE CorrelationFrom(timeData, lag, i + 1,
            correlation
            + FloatSample(timeData[i]) * FloatSample(timeData[i + lag]))

RECURSIVE MutBestLagNotStrict(_, _, _, _, _)
\* The outer loop with "correlation >= maxCorrelation".
MutBestLagNotStrict(timeData, lag, maxLag, maxCorrelation, bestLag) ==
    IF ~(lag < maxLag /\ 2 * lag < Len(timeData))
    THEN [bestLag |-> bestLag, maxCorrelation |-> maxCorrelation]
    ELSE LET correlation == CorrelationFrom(timeData, lag, 1, 0)
         IN  IF correlation >= maxCorrelation
             THEN MutBestLagNotStrict(timeData, lag + 1, maxLag, correlation, lag)
             ELSE MutBestLagNotStrict(timeData, lag + 1, maxLag,
                                      maxCorrelation, bestLag)

RECURSIVE BestLagFrom(_, _, _, _, _)
\* The outer loop of detectPitch from lag on: lag < maxLag and
\* lag < floatData.length / 2.
BestLagFrom(timeData, lag, maxLag, maxCorrelation, bestLag) ==
    IF ~(lag < maxLag /\ 2 * lag < Len(timeData))
    THEN [bestLag |-> bestLag, maxCorrelation |-> maxCorrelation]
    ELSE LET correlation == CorrelationFrom(timeData, lag, 1, 0)
         IN  IF correlation > maxCorrelation
             THEN BestLagFrom(timeData, lag + 1, maxLag, correlation, lag)
             ELSE BestLagFrom(timeData, lag + 1, maxLag, maxCorrelation, bestLag)

\* The pitch 0 and the pitch sampleRate / bestLag, as a fraction.
ZeroPitch == [num |-> 0, den |-> 1]

\* detectPitch: the best lag, its correlation and the pitch returned.
detectPitch(timeData, sampleRate) ==
    LET minLag == sampleRate \div 500
        maxLag == sampleRate \div 50
        found == BestLagFrom(timeData, minLag, maxLag, 0, 0)
    IN  [bestLag |-> found.bestLag,
         maxCorrelation |-> found.maxCorrelation,
         pitch |-> IF found.bestLag = 0 THEN ZeroPitch
                   ELSE [num |-> sampleRate, den |-> found.bestLag]]

\* Buffers of byte samples: every sample at the level byte.
ConstantBuffer(byte) == [i \in 1..PitchBufferLen |-> byte]

\* A square wave of the given period and amplitude around the midpoint 128.
SquareBuffer(period, amplitude) ==
    [i \in 1..PitchBufferLen |->
        IF ((i - 1) % period) * 2 < period THEN 128 + amplitude
        ELSE 128 - amplitude]

\* Silence but for one sample.
ClickBuffer(at, byte) ==
    [i \in 1..PitchBufferLen |-> IF i = at THEN byte ELSE 128]

PitchBuffers ==
    {ConstantBuffer(b) : b \in {0, 127, 128, 129, 255}}
    \cup {SquareBuffer(p, a) : p \in 2..40, a \in {1, 100}}
    \cup {ClickBuffer(at, 255) : at \in {1, 32, PitchBufferLen}}

\* One direct call detectPitch(timeData) on a service whose audio context
\* has the given sample rate, the only one of its behaviour: the function
\* keeps no state between calls.
CallDetectPitch ==
    /\ pitchInput = NotCalled
    /\ \E timeData \in PitchBuffers, sampleRate \in PitchSampleRates :
          /\ pitchInput' = [timeData |-> timeData, sampleRate |-> sampleRate]
          /\ pitchResult' = detectPitch(timeData, sampleRate)
    /\ UNCHANGED <<sessionVars, fusionVars, vocalVars, stdDevVars,
                   classifierVars, chatVars,
                   demoVars>>

----------------------------------------------------------------------------
(* useMultimodalAI: the conversation and the closures of sendMessage       *)

\* Longest message sequence of the conversation seen alone.
MaxChat == 3

\* The messages with their role and content, the message sequence as the
\* closures of three renders saw it, and the backend calls awaiting their reply.
ConversationInit ==
    [messages |-> <<>>,
     renderedMessages |-> <<>>,     \* messages in the controls of the latest render
     initMessages |-> <<>>,         \* messages in the closure of the running initialize
     handlerMessages |-> <<>>,      \* messages in the closure of the transcription handler
     onTranscriptionCallback |-> FALSE,
     initializing |-> FALSE,
     backendCalls |-> 0]

NoChatOutput(op) == [op |-> op, requests |-> 0, history |-> <<>>]

ChatWorld == [hook |-> chat, out |-> NoChatOutput("none")]

\* messages.slice(-10).map((msg) => ({role: msg.role, content: msg.content}))
ConversationHistory(msgs) ==
    LET from == Max(1, Len(msgs) - 9)
    IN  [i \in 1..(Len(msgs) - from + 1) |->
            [role |-> msgs[from + i - 1].role,
             content |-> msgs[from + i - 1].content]]

\* sendMessage up to its await of the backend call.  The function is the
\* closure of one render: closureMessages is the value its variable messages
\* has, the message sequence as that render saw it.
Chat_sendMessage(c, text, closureMessages) ==
    IF Trim(text) = <<>> THEN c
    ELSE [c EXCEPT
            !.hook.messages = Append(@, [role |-> "user", content |-> Trim(text)]),
            !.hook.backendCalls = @ + 1,
            !.out.requests = @ + 1,
            !.out.history = ConversationHistory(closureMessages)]

\* sendMessage from the reply of the backend to its end.
Chat_reply(c, ok) ==
    LET c1 == [c EXCEPT !.hook.backendCalls = @ - 1]
    IN  IF ok
        THEN [c1 EXCEPT !.hook.messages =
                Append(@, [role |-> "assistant", content |-> ReplyText])]
        ELSE c1

\* initialize is memoized on [language, onEmotionChange, onTranscription].
\* When the caller's options are stable it is the closure of the first
\* render, whose sendMessage saw no message; when they change with every
\* render it is the closure of the latest render.
Chat_initialize(c, stable) ==
    [c EXCEPT !.hook.initializing = TRUE,
              !.hook.initMessages =
                    IF stable THEN <<>> ELSE c.hook.renderedMessages]

\* initialize registers its transcription handler.
Chat_initialized(c) ==
    [c EXCEPT !.hook.initializing = FALSE,
              !.hook.onTranscriptionCallback = TRUE,
              !.hook.handlerMessages = c.hook.initMessages]

\* The transcription handler: it calls the sendMessage of its own closure.
Chat_onTranscription(c, result) ==
    IF result.isFinal /\ Trim(result.text) # <<>>
    THEN Chat_sendMessage(c, Trim(result.text), c.hook.handlerMessages)
    ELSE c

Chat_clearMessages(c) == [c EXCEPT !.hook.messages = <<>>]

\* The step of operation op on the conversation ends in c.
ChatCommit(op, c) ==
    /\ Len(c.hook.messages) <= MaxChat
    /\ c.hook.backendCalls <= MaxPending
    /\ chat' = c.hook
    /\ chatOut' = [c.out EXCEPT !.op = op]
    /\ UNCHANGED <<sessionVars, fusionVars, vocalVars, stdDevVars,
                   classifierVars, pitchVars,
                   demoVars>>

\* A direct call of the sendMessage that the latest render returned.
ChatSendMessage ==
    \E t \in Texts :
        ChatCommit("sendMessage",
                   Chat_sendMessage(ChatWorld, t, chat.renderedMessages))

ChatInitialize ==
    /\ ~chat.initializing
    /\ \E stable \in BOOLEAN :
          ChatCommit("initialize", Chat_initialize(ChatWorld, stable))

ChatInitialized ==
    /\ chat.initializing
    /\ ChatCommit("initialized", Chat_initialized(ChatWorld))

\* The recognizer delivers a segment to the registered handler.
ChatSegment ==
    /\ chat.onTranscriptionCallback
    /\ \E seg \in Segments :
          ChatCommit("recognizerResult", Chat_onTranscription(ChatWorld, seg))

ChatBackendReply ==
    /\ chat.backendCalls > 0
    /\ \E ok \in BOOLEAN :
          ChatCommit(IF ok THEN "backendReply" ELSE "backendFailed",
                     Chat_reply(ChatWorld, ok))

ChatClearMessages ==
    ChatCommit("clearMessages", Chat_clearMessages(ChatWorld))

\* React renders: the controls it returns close over the state of this render.
ChatRender ==
    /\ chat.renderedMessages # chat.messages
    /\ ChatCommit("render",
                  [ChatWorld EXCEPT !.hook.renderedMessages = chat.messages])

----------------------------------------------------------------------------
(* Demo page: the Speak control and its wait for initialization            *)

\* Most waits of the Speak control pending at once.
MaxWaits == 2

\* Most initialize calls of the page running at once.
MaxInits == 2

\* What a render of the page sees of its state; the handlers and effects of
\* that render close over these values.
DemoSnapshot(d) ==
    [cameraEnabled |-> d.cameraEnabled,
     micEnabled |-> d.micEnabled,
     isInitialized |-> d.isInitialized,
     isListening |-> d.isListening]

\* The state of the page and of the hook it uses, the values of the latest
\* render, the initialize calls that are running and, for each value of
\* isInitialized that a Speak handler closed over, the number of waits of
\* such handlers whose checkInit timer is pending.
DemoInit ==
    [cameraEnabled |-> FALSE,
     micEnabled |-> FALSE,
     isInitialized |-> FALSE,
     isListening |-> FALSE,
     rendered |-> [cameraEnabled |-> FALSE, micEnabled |-> FALSE,
                   isInitialized |-> FALSE, isListening |-> FALSE],
     initializing |-> 0,
     waiting |-> [closureInitialized \in BOOLEAN |-> 0]]

\* What a step did: whether a wait resolved, whether startListening was
\* called, and the value of isInitialized in the closure of the handler.
NoDemoOutput(op) ==
    [op |-> op, resolved |-> FALSE, startListeningCalls |-> 0,
     closureInitialized |-> FALSE]

DemoWorld == [page |-> demo, out |-> NoDemoOutput("none")]

\* toggleCamera of the latest render; granted tells whether getUserMedia
\* gave a stream.
Demo_toggleCamera(w, granted) ==
    IF w.page.rendered.cameraEnabled THEN [w EXCEPT !.page.cameraEnabled = FALSE]
    ELSE IF granted THEN [w EXCEPT !.page.cameraEnabled = TRUE]
    ELSE w

\* toggleMic of the latest render.
Demo_toggleMic(w, granted) ==
    IF w.page.rendered.micEnabled
    THEN [w EXCEPT !.page.micEnabled = FALSE,
                   !.page.isListening =
                        IF w.page.rendered.isListening THEN FALSE ELSE @]
    ELSE IF granted THEN [w EXCEPT !.page.micEnabled = TRUE]
    ELSE w

\* startListening of the hook, as returned by a render that saw isInitialized
\* with the value closureInitialized.
Demo_startListening(w, closureInitialized) ==
    IF ~closureInitialized
    THEN [w EXCEPT !.out.startListeningCalls = @ + 1]
    ELSE [w EXCEPT !.out.startListeningCalls = @ + 1,
                   !.page.isListening = TRUE]

\* handleToggleListening of the latest render, up to the setTimeout of
\* waitForInit.
Demo_handleToggleListening(w, cameraGranted, micGranted) ==
    IF w.page.rendered.isListening
    THEN [w EXCEPT !.page.isListening = FALSE]
    ELSE LET w1 == IF ~w.page.rendered.cameraEnabled
                   THEN Demo_toggleCamera(w, cameraGranted) ELSE w
             w2 == IF ~w.page.rendered.micEnabled
                   THEN Demo_toggleMic(w1, micGranted) ELSE w1
         IN  [w2 EXCEPT
                !.page.waiting[w.page.rendered.isInitialized] = @ + 1,
                !.out.closureInitialized = w.page.rendered.isInitialized]

\* checkInit, run by its timer, in a handler that closed over
\* closureInitialized: it resolves the wait, and the handler goes on to call
\* startListening, or it sets the timer again.
Demo_checkInit(w, closureInitialized) ==
    IF closureInitialized
    THEN Demo_startListening(
            [w EXCEPT !.page.waiting[closureInitialized] = @ - 1,
                      !.out.resolved = TRUE,
                      !.out.closureInitialized = closureInitialized],
            closureInitialized)
    ELSE [w EXCEPT !.out.closureInitialized = closureInitialized]

\* A render and the initAI effect after it, which runs on every render since
\* initialize is a new function in each.
Demo_render(w) ==
    LET w1 == [w EXCEPT !.page.rendered = DemoSnapshot(w.page)]
    IN  IF /\ w1.page.rendered.cameraEnabled
           /\ w1.page.rendered.micEnabled
           /\ ~w1.page.rendered.isInitialized
        THEN [w1 EXCEPT !.page.initializing = @ + 1]
        ELSE w1

\* A running initialize of the hook ends: ok tells whether it succeeded.
Demo_initializeDone(w, ok) ==
    IF ok
    THEN [w EXCEPT !.page.initializing = @ - 1, !.page.isInitialized = TRUE]
    ELSE [w EXCEPT !.page.initializing = @ - 1]

\* The step of operation op on the page ends in w.
DemoCommit(op, w) ==
    /\ w.page.waiting[TRUE] + w.page.waiting[FALSE] <= MaxWaits
    /\ w.page.initializing <= MaxInits
    /\ demo' = w.page
    /\ demoOut' = [w.out EXCEPT !.op = op]
    /\ UNCHANGED <<sessionVars, fusionVars, vocalVars, stdDevVars,
                   classifierVars, chatVars, pitchVars>>

DemoToggleCamera ==
    \E granted \in BOOLEAN :
        DemoCommit("toggleCamera", Demo_toggleCamera(DemoWorld, granted))

DemoToggleMic ==
    \E granted \in BOOLEAN :
        DemoCommit("toggleMic", Demo_toggleMic(DemoWorld, granted))

\* The Speak button is pressed; it is disabled while the latest render saw
\* neither isInitialized nor micEnabled.
DemoPressSpeak ==
    /\ ~(~demo.rendered.isInitialized /\ ~demo.rendered.micEnabled)
    /\ \E cameraGranted \in BOOLEAN, micGranted \in BOOLEAN :
          DemoCommit("handleToggleListening",
                     Demo_handleToggleListening(DemoWorld, cameraGranted,
                                                micGranted))

\* The checkInit timer of a pending wait fires.
DemoCheckInitFires ==
    \E closureInitialized \in BOOLEAN :
        /\ demo.waiting[closureInitialized] > 0
        /\ DemoCommit("checkInit", Demo_checkInit(DemoWorld, closureInitialized))

DemoRender ==
    /\ demo.rendered # DemoSnapshot(demo)
    /\ DemoCommit("render", Demo_render(DemoWorld))

DemoInitializeDone ==
    /\ demo.initializing > 0
    /\ \E ok \in BOOLEAN :
          DemoCommit("initializeDone", Demo_initializeDone(DemoWorld, ok))

----------------------------------------------------------------------------
(* Specifications                                                          *)

Init ==
    /\ hook = HookInit
    /\ face = FaceServiceInit
    /\ voice = VoiceServiceInit
    /\ \E supported \in BOOLEAN : env = EnvInit(supported)
    /\ last = [op |-> "construct", again |-> FALSE, threw |-> FALSE,
               recStarts |-> 0, requests |-> 0, facialEmits |-> 0,
               voiceEmits |-> 0, arg |-> NoArg, estimate |-> NULL,
               score |-> 0]
    /\ disposed = FALSE
    /\ everDisposed = FALSE
    /\ fuseFacial = NULL
    /\ fuseVoice = NULL
    /\ fuseResult = NotCalled
    /\ vocal = VocalServiceInit
    /\ samplesRead = 0
    /\ vocalOut = NoVocalOutput("construct")
    /\ stdValues = <<>>
    /\ stdResult = "notCalled"
    /\ clsMetrics = NotCalled
    /\ clsResult = NotCalled
    /\ chat = ConversationInit
    /\ chatOut = NoChatOutput("construct")
    /\ pitchInput = NotCalled
    /\ pitchResult = NotCalled
    /\ demo = DemoInit
    /\ demoOut = NoDemoOutput("construct")

\* Outcomes of one detectSingleFace(...).withFaceExpressions() call: it
\* throws, finds no face, or returns the expression scores of a face.
SessionOutcomes ==
    {[kind |-> "error"], [kind |-> "none"],
     [kind |-> "face", expressions |-> Scores(10, 90, 0)]}

\* Outcomes around the minimum confidence: the faces have a top score below
\* it, equal to it and well above it.
ThresholdOutcomes ==
    {[kind |-> "error"], [kind |-> "none"],
     [kind |-> "face", expressions |-> Scores(49, 30, 21)],
     [kind |-> "face", expressions |-> Scores(50, 30, 20)],
     [kind |-> "face", expressions |-> Scores(10, 90, 0)]}

\* The frame above the energy gate whose features are metrics: its estimate
\* is the result of detectEmotion, the confidence brought to fixed point.
FrameOf(metrics) ==
    LET r == detectEmotion(metrics)
    IN  VocalFrame(r.emotion, 10 * DToTenths(r.confidence))

\* Audio frames read by a tick of the vocal loop: silence, a frame classified
\* sad with confidence 1 and one classified happy with confidence 0.5.
SessionFrames ==
    {VocalSilence, FrameOf(Metrics(150, 20, 10, 20)),
     FrameOf(Metrics(300, 50, 30, 50))}

\* Outcomes and frames of a session in front of an empty, silent room: no
\* face is found and no frame passes the energy gate.
QuietOutcomes == {[kind |-> "error"], [kind |-> "none"]}

QuietFrames == {VocalSilence}

\* The session: the controls of the hook, both analysis loops and the
\* recognizer, in a quiet room.  Estimates are left to SpecEstimates and
\* messages to SpecChat.
Next ==
    \/ Initialize
    \/ StartFaceDetection
    \/ StopFaceDetection
    \/ StartListening(QuietFrames)
    \/ StopListening
    \/ Dispose
    \/ FaceModelsLoaded
    \/ FaceModelsFailed
    \/ VoiceInitialized
    \/ DetectionDone(QuietOutcomes)
    \/ FaceTimerFires
    \/ FaceLostTimerFires
    \/ VoiceTimerFires(QuietFrames)
    \/ RecognizerEnded
    \/ OrphanEnded
    \/ RestartTimerFires

Spec == Init /\ [][Next]_vars

\* The estimates: the controls of the hook and both analysis loops with faces
\* and voices in front of them.  The 'end' events of the recognizer, which
\* touch no estimate, are left to Spec.
NextEstimates ==
    \/ Initialize
    \/ StartFaceDetection
    \/ StopFaceDetection
    \/ StartListening(SessionFrames)
    \/ StopListening
    \/ Dispose
    \/ FaceModelsLoaded
    \/ FaceModelsFailed
    \/ VoiceInitialized
    \/ DetectionDone(SessionOutcomes)
    \/ FaceTimerFires
    \/ FaceLostTimerFires
    \/ VoiceTimerFires(SessionFrames)

SpecEstimates == Init /\ [][NextEstimates]_vars

\* The running session: it is initialized, listening is started, and both
\* loops tick on faces around the minimum confidence and on voices.  Stops
\* and dispose are left to Spec and SpecEstimates.
NextRunning ==
    \/ Initialize
    \/ FaceModelsLoaded
    \/ FaceModelsFailed
    \/ VoiceInitialized
    \/ StartListening(SessionFrames)
    \/ DetectionDone(ThresholdOutcomes)
    \/ FaceTimerFires
    \/ VoiceTimerFires(SessionFrames)

SpecRunning == Init /\ [][NextRunning]_vars

\* The conversation: a session that is initialized, listens and is disposed,
\* the transcript segments of the recognizer, the sends and their replies.
\* The facial loop is left to Spec; vocal estimates give the messages their
\* emotion context.
ChatFrames == {VocalFrame("sad", 50)}

NextChat ==
    \/ Initialize
    \/ FaceModelsLoaded
    \/ VoiceInitialized
    \/ StartListening(ChatFrames)
    \/ StopListening
    \/ VoiceTimerFires(ChatFrames)
    \/ RecognizerResult(Segments)
    \/ SendMessage(Texts)
    \/ ClearMessages
    \/ BackendReply
    \/ Render

SpecChat == Init /\ [][NextChat]_vars

\* Overlapping sends: a session that is initialized and listens, sends by
\* direct call and by transcript segment while earlier backend calls are
\* outstanding, and the replies.
NextOverlap ==
    \/ Initialize
    \/ FaceModelsLoaded
    \/ VoiceInitialized
    \/ StartListening(QuietFrames)
    \/ OverlapSendMessage
    \/ OverlapRecognizerResult
    \/ OverlapBackendReply

SpecOverlap == Init /\ [][NextOverlap]_vars

\* One direct call combineEmotions(f, v).
CallCombine ==
    /\ \E f \in FusionFacial, v \in FusionVoice :
          /\ fuseFacial' = f
          /\ fuseVoice' = v
          /\ fuseResult' = combineEmotions(f, v)
    /\ UNCHANGED <<sessionVars, vocalVars, stdDevVars, classifierVars,
                   chatVars, pitchVars,
                   demoVars>>

NextFusion == CallCombine

\* The fusion function alone: every step is one call on arguments of the grid.
InitFusion ==
    /\ Init
    /\ env.speechSupported

SpecFusion == InitFusion /\ [][NextFusion]_vars

\* The vocal loop of one service: calls of startListening and stopListening
\* and the firing of its timer, on frames numbered by their arrival.
NextVocal ==
    \/ VocalStartListening
    \/ VocalStopListening
    \/ VocalTimerFires

InitVocal ==
    /\ Init
    /\ env.speechSupported

SpecVocal == InitVocal /\ [][NextVocal]_vars

\* The conversation alone: sends by direct call and by transcript segment,
\* replies, renders, and the initialize that registers the handler.
NextHistory ==
    \/ ChatSendMessage
    \/ ChatInitialize
    \/ ChatInitialized
    \/ ChatSegment
    \/ ChatBackendReply
    \/ ChatClearMessages
    \/ ChatRender

InitHistory ==
    /\ Init
    /\ env.speechSupported

SpecHistory == InitHistory /\ [][NextHistory]_vars

\* The Demo page alone: its buttons, its renders with the effect that
\* initializes the session, and the timers of the waits.
NextDemo ==
    \/ DemoToggleCamera
    \/ DemoToggleMic
    \/ DemoPressSpeak
    \/ DemoCheckInitFires
    \/ DemoRender
    \/ DemoInitializeDone

InitDemo ==
    /\ Init
    /\ env.speechSupported

SpecDemo == InitDemo /\ [][NextDemo]_vars

\* detectPitch alone: every step is one call on a buffer of byte samples.
NextPitch == CallDetectPitch

InitPitch ==
    /\ Init
    /\ env.speechSupported

SpecPitch == InitPitch /\ [][NextPitch]_vars

\* calculateStdDev alone: every step is one call on a window of doubles.
NextStdDev == CallStdDev

InitStdDev ==
    /\ Init
    /\ env.speechSupported

SpecStdDev == InitStdDev /\ [][NextStdDev]_vars

\* detectEmotion alone: every step is one call on a vector of the grid.
NextClassifier == CallDetectEmotion

InitClassifier ==
    /\ Init
    /\ env.speechSupported

SpecClassifier == InitClassifier /\ [][NextClassifier]_vars

----------------------------------------------------------------------------
(* Properties                                                              *)

\* C1: in every reachable state the fused estimate held by the session is
\* combineEmotions of the facial and the vocal estimate held with it, whatever
\* the order of the facial and vocal estimate events.
C1_CombinedIsFusionOfHeld ==
    hook.emotionState.combined =
        combineEmotions(hook.emotionState.facial, hook.emotionState.voice)

\* A facial estimate has just arrived while a vocal estimate was held.
C1_Witness ==
    /\ last.op = "detectionDone"
    /\ last.facialEmits = 1
    /\ hook.emotionState.facial # NULL
    /\ hook.emotionState.voice # NULL
    /\ hook.emotionState.combined # NULL

\* C2: when both estimates are present with the same label, combineEmotions
\* returns that label with confidence min(1, (0.55 f + 0.38 v) * 1.2), which
\* lies in [0, 1].
C2_AgreementBoost ==
    (/\ fuseResult # NotCalled
     /\ fuseFacial # NULL
     /\ fuseVoice # NULL
     /\ fuseFacial.dominant = fuseVoice.emotion)
    => /\ fuseResult.emotion = fuseFacial.dominant
       /\ 1000 * fuseResult.confidence =
            Min(1000 * One,
                12 * (55 * fuseFacial.confidence + 38 * fuseVoice.confidence))
       /\ fuseResult.confidence >= 0
       /\ fuseResult.confidence <= One

\* Both estimates agree and the boosted sum exceeds 1, so the clamp applies.
C2_Witness ==
    /\ fuseResult # NotCalled
    /\ fuseFacial # NULL
    /\ fuseVoice # NULL
    /\ fuseFacial.dominant = fuseVoice.emotion
    /\ 12 * (55 * fuseFacial.confidence + 38 * fuseVoice.confidence) > 1000 * One
    /\ fuseResult.confidence = One

\* C3: when both estimates are present with differing labels, combineEmotions
\* returns confidence max(0.55 f, 0.38 v) and the label of the modality with
\* the larger weighted score, the facial one on equal scores.
C3_DisagreementArgmax ==
    (/\ fuseResult # NotCalled
     /\ fuseFacial # NULL
     /\ fuseVoice # NULL
     /\ fuseFacial.dominant # fuseVoice.emotion)
    => /\ 100 * fuseResult.confidence =
            Max(55 * fuseFacial.confidence, 38 * fuseVoice.confidence)
       /\ fuseResult.emotion =
            IF 55 * fuseFacial.confidence >= 38 * fuseVoice.confidence
            THEN fuseFacial.dominant
            ELSE fuseVoice.emotion

\* Differing labels with equal weighted scores: the facial label is returned.
C3_Witness ==
    /\ fuseResult # NotCalled
    /\ fuseFacial # NULL
    /\ fuseVoice # NULL
    /\ fuseFacial.dominant # fuseVoice.emotion
    /\ fuseFacial.confidence > 0
    /\ 55 * fuseFacial.confidence = 38 * fuseVoice.confidence
    /\ fuseResult.emotion = fuseFacial.dominant

\* C4: combineEmotions returns null when both estimates are null, and the
\* label and confidence of the only estimate present, unweighted, when exactly
\* one is present.
C4_NullAndPassThrough ==
    fuseResult # NotCalled =>
        /\ (fuseFacial = NULL /\ fuseVoice = NULL) => fuseResult = NULL
        /\ (fuseFacial = NULL /\ fuseVoice # NULL) =>
                fuseResult = [emotion |-> fuseVoice.emotion,
                              confidence |-> fuseVoice.confidence]
        /\ (fuseFacial # NULL /\ fuseVoice = NULL) =>
                fuseResult = [emotion |-> fuseFacial.dominant,
                              confidence |-> fuseFacial.confidence]

\* Only the vocal estimate is present and it is passed through.
C4_Witness ==
    /\ fuseResult # NotCalled
    /\ fuseFacial = NULL
    /\ fuseVoice # NULL
    /\ fuseVoice.confidence = Pct(50)
    /\ fuseResult.confidence = Pct(50)

\* C5: startListening and stopListening leave isFaceDetectionActive and the
\* facial loop as they were, and startFaceDetection and stopFaceDetection leave
\* isListening, the vocal loop and the transcription as they were, for every
\* order of the four calls.
C5_ControlPairsIndependent ==
    [][/\ last'.op \in {"startListening", "stopListening"} =>
            /\ hook'.isFaceDetectionActive = hook.isFaceDetectionActive
            /\ face' = face
       /\ last'.op \in {"startFaceDetection", "stopFaceDetection"} =>
            /\ hook'.isListening = hook.isListening
            /\ voice' = voice
            /\ env' = env]_vars

\* stopListening has run while the facial loop was running, and it still runs.
C5_Witness ==
    /\ last.op = "stopListening"
    /\ hook.isInitialized
    /\ ~hook.isListening
    /\ hook.isFaceDetectionActive
    /\ face.isDetecting
    /\ voice.onVoiceEmotionCallback

\* A step in which a recognizer's 'end' event is handled.
EndedStep == last'.op \in {"recognizerEnded", "orphanEnded"}

\* C6, as stated: every 'ended' event received while isTranscribing is true
\* leads to exactly one call of recognition.start once its delay has passed,
\* and an 'ended' event received while the flag is false leads to none.
C6_EveryRestartTimerStarts ==
    [][/\ EndedStep =>
            env'.restartTimers =
                env.restartTimers + (IF voice.isTranscribing THEN 1 ELSE 0)
       /\ last'.op = "restartTimer" => last'.recStarts = 1]_vars

\* C6, amended: an 'ended' event schedules exactly one restart timer when
\* isTranscribing is true and none when it is false, and calls start itself
\* in neither case; the timer, when it fires, calls recognition.start exactly
\* once if isTranscribing is true at that moment and not at all otherwise.
C6_RestartIffStillTranscribing ==
    [][/\ EndedStep =>
            /\ env'.restartTimers =
                    env.restartTimers + (IF voice.isTranscribing THEN 1 ELSE 0)
            /\ last'.recStarts = 0
       /\ last'.op = "restartTimer" =>
            /\ env'.restartTimers = env.restartTimers - 1
            /\ last'.recStarts = (IF voice.isTranscribing THEN 1 ELSE 0)]_vars

\* A restart timer has fired with the flag still set and restarted the
\* recognizer.
C6_Witness ==
    /\ last.op = "restartTimer"
    /\ last.recStarts = 1
    /\ voice.isTranscribing
    /\ env.recState = "running"

\* The status flags of the hook.
AllFlagsFalse(h) ==
    /\ ~h.isInitialized
    /\ ~h.isCameraActive
    /\ ~h.isMicActive
    /\ ~h.isFaceDetectionActive
    /\ ~h.isListening

\* C8: a dispose that directly follows a dispose raises no error, ends with
\* isInitialized, isCameraActive, isMicActive, isFaceDetectionActive and
\* isListening false, and leaves the state as the first dispose left it.
C8_DisposeTwice ==
    [][(last.op = "dispose" /\ last'.op = "dispose") =>
            /\ ~last.threw
            /\ ~last'.threw
            /\ AllFlagsFalse(hook')
            /\ <<hook', face', voice', env'>> = <<hook, face, voice, env>>]_vars

\* dispose has run twice in succession on a session that had been initialized.
C8_Witness ==
    /\ last.op = "dispose"
    /\ last.again
    /\ face.isInitialized
    /\ voice.onTranscriptionCallback
    /\ AllFlagsFalse(hook)

\* Both loops stopped, the transcription flag clear, every status flag false.
Stopped ==
    /\ AllFlagsFalse(hook)
    /\ ~face.isDetecting
    /\ ~voice.isListening
    /\ ~voice.isTranscribing

\* C9: from a dispose until the next initialize or start* call, both loops
\* stay stopped, the transcription flag stays clear, no status flag is true
\* and no estimate is emitted, also when dispose ran while initialize was
\* awaiting the models.
C9_DisposedStaysStopped ==
    disposed => (Stopped /\ last.facialEmits = 0 /\ last.voiceEmits = 0)

\* C10: after dispose the observed state is that of before initialize: the
\* status flags false, the held and the fused estimates null, the transcript
\* in progress empty and the last error null.
C10_DisposeRestoresInitialState ==
    last.op = "dispose" =>
        /\ AllFlagsFalse(hook)
        /\ hook.emotionState = HookInit.emotionState
        /\ hook.currentTranscript = HookInit.currentTranscript
        /\ hook.error = HookInit.error

\* C7: a final transcript segment with non-empty trimmed text appends exactly
\* one user message with that trimmed text, issues exactly one backend request
\* and leaves the transcript in progress empty; any other segment appends no
\* message and issues no request.
C7_FinalSegmentSendsOnce ==
    [][last'.op = "recognizerResult" =>
        IF last'.arg.isFinal /\ Trim(last'.arg.text) # <<>>
        THEN /\ Len(hook'.messages) = Len(hook.messages) + 1
             /\ SubSeq(hook'.messages, 1, Len(hook.messages)) = hook.messages
             /\ hook'.messages[Len(hook'.messages)].role = "user"
             /\ hook'.messages[Len(hook'.messages)].content = Trim(last'.arg.text)
             /\ last'.requests = 1
             /\ env'.backendCalls = env.backendCalls + 1
             /\ hook'.currentTranscript = <<>>
        ELSE /\ hook'.messages = hook.messages
             /\ last'.requests = 0
             /\ env'.backendCalls = env.backendCalls]_vars

\* A final segment whose text needed trimming has been sent as one message.
C7_Witness ==
    /\ last.op = "recognizerResult"
    /\ last.arg.isFinal
    /\ last.arg.text = <<" ", "a", " ">>
    /\ last.requests = 1
    /\ Len(hook.messages) = 1
    /\ hook.messages[1].role = "user"
    /\ hook.messages[1].content = <<"a">>
    /\ hook.currentTranscript = <<>>

\* C11: once dispose has been called on a coordinator instance, that instance
\* never becomes Ready (isInitialized true) again.
C11_DisposedIsTerminal ==
    everDisposed => ~hook.isInitialized

\* The controls that C12 is about.
LoopControls ==
    {"startFaceDetection", "stopFaceDetection", "startListening", "stopListening"}

\* C12: a call of startFaceDetection, stopFaceDetection, startListening or
\* stopListening before the coordinator is Ready does not throw, leaves the
\* last error non-null, and starts no loop and no transcription.
C12_ControlBeforeReadyReportsError ==
    [][(last'.op \in LoopControls /\ ~hook.isInitialized) =>
            /\ ~last'.threw
            /\ hook'.error # NullStr
            /\ face'.isDetecting = face.isDetecting
            /\ face'.inFlight = face.inFlight
            /\ voice'.isListening = voice.isListening
            /\ voice'.isTranscribing = voice.isTranscribing
            /\ last'.recStarts = 0]_vars

\* C13: a detection that completes while the facial loop is not running is
\* discarded: no facial estimate is emitted and the held facial estimate is
\* not changed.
C13_LateDetectionDiscarded ==
    [][(last'.op = "detectionDone" /\ ~face.isDetecting) =>
            /\ last'.facialEmits = 0
            /\ hook'.emotionState.facial = hook.emotionState.facial]_vars

\* C14: the facial loop has at most one detection call in flight and at most
\* one scheduled next tick at any time.
C14_OneDetectionOneTimer ==
    /\ face.inFlight <= 1
    /\ face.lostTimers + (IF face.detectionInterval THEN 1 ELSE 0) <= 1

\* C15: while a loop is stopped no scheduled continuation of it is pending,
\* so no tick of it fires before it is started again.
C15_NoTimerWhileStopped ==
    /\ ~voice.isListening => (~voice.analysisInterval /\ voice.lostTimers = 0)
    /\ ~face.isDetecting => (~face.detectionInterval /\ face.lostTimers = 0)

\* C16: an error raised during one tick of the vocal loop produces no emission
\* for that tick and does not stop the loop: while the loop remains running,
\* the next tick is scheduled.
C16_TickErrorKeepsLoop ==
    vocalOut.threw =>
        /\ ~vocalOut.emitted
        /\ vocal.isListening => vocal.analysisInterval

\* C17: the pitch history and the loudness history each hold at most 20
\* samples, and they hold the most recent accepted samples in arrival order.
C17_HistoriesHoldRecentSamples ==
    /\ Len(vocal.pitchHistory) <= 20
    /\ Len(vocal.volumeHistory) <= 20
    /\ Len(vocal.pitchHistory) = Len(vocal.volumeHistory)
    /\ \A i \in 1..Len(vocal.pitchHistory) :
          /\ vocal.pitchHistory[i] =
                PitchOf(samplesRead - Len(vocal.pitchHistory) + i)
          /\ vocal.volumeHistory[i] =
                VolumeOf(samplesRead - Len(vocal.volumeHistory) + i)

\* A twenty-first sample has been accepted and the first one evicted.
C17_Witness ==
    /\ vocalOut.op = "tick"
    /\ samplesRead = 21
    /\ Len(vocal.pitchHistory) = 20
    /\ vocal.pitchHistory[1] = PitchOf(2)
    /\ vocal.pitchHistory[20] = PitchOf(21)
    /\ vocal.volumeHistory[1] = VolumeOf(2)

\* C18: calculateStdDev returns 0 for an empty window, for a window of one
\* sample and for every window whose samples are all equal; for every other
\* window it returns a strictly positive value.
C18_StdDevZeroIffConstant ==
    stdResult # "notCalled" =>
        (stdResult = "zero" <=>
            \A i \in 1..Len(stdValues) : stdValues[i] = stdValues[1])

\* The input {pitch: 300, loudness: 0.2, energy: 0.5, pitchVariation: 10}.
ExampleMetrics == Metrics(300, 20, 10, 50)

\* C19, as stated: the classifier applied to the input {pitch: 300,
\* loudness: 0.2, energy: 0.5, pitchVariation: 10, loudnessVariation: 0}
\* returns the label "happy".
C19_ExampleIsHappy ==
    clsMetrics = ExampleMetrics => clsResult.emotion = "happy"

\* C19, amended: the classifier applied to that input returns the label "sad"
\* with confidence 0.5.
C19_ExampleIsSad ==
    clsMetrics = ExampleMetrics =>
        clsResult = [emotion |-> "sad", confidence |-> D05]

\* detectEmotion has been called on the example.
C19_Witness ==
    /\ clsMetrics = ExampleMetrics
    /\ clsResult # NotCalled
    /\ clsResult.emotion = "sad"

\* The additive rule table of detectEmotion in exact tenths.
RuleTable(m) ==
    [x \in VoiceEmotion |->
        CASE x = "happy" ->
                (IF m.pitch >= 200 /\ m.pitch <= 400 THEN 3 ELSE 0)
                + (IF m.volume > 70 THEN 1 ELSE 0)
                + (IF m.pitchVariation <= 40 /\ m.pitchVariation > 25 THEN 2 ELSE 0)
                + (IF m.energy > 60 THEN 1 ELSE 0)
          [] x = "sad" ->
                (IF m.pitch >= 100 /\ m.pitch <= 200 THEN 3 ELSE 0)
                + (IF m.volume < 30 THEN 3 ELSE 0)
                + (IF m.pitchVariation < 15 THEN 2 ELSE 0)
                + (IF m.energy < 30 THEN 2 ELSE 0)
          [] x = "angry" ->
                (IF m.pitch >= 150 /\ m.pitch <= 350 /\ m.volume > 70 THEN 3 ELSE 0)
                + (IF m.volume > 70 THEN 2 ELSE 0)
                + (IF m.pitchVariation > 40 THEN 2 ELSE 0)
                + (IF m.energy > 60 THEN 2 ELSE 0)
          [] x = "fearful" ->
                (IF m.pitch >= 180 /\ m.pitch <= 350 THEN 2 ELSE 0)
                + (IF m.volume < 30 THEN 1 ELSE 0)
                + (IF m.pitchVariation > 40 THEN 2 ELSE 0)
          [] x = "neutral" ->
                3 + (IF m.pitchVariation < 15 THEN 1 ELSE 0)]

\* C20: detectEmotion returns a label whose rule-table score is maximal among
\* the five labels, on equal maximal scores the first one in the order happy,
\* sad, angry, fearful, neutral, and returns as confidence that maximal score
\* clamped to at most 1.
C20_ArgmaxFirstOnTies ==
    clsResult # NotCalled =>
        LET table == RuleTable(clsMetrics)
            best == CHOOSE t \in {table[x] : x \in VoiceEmotion} :
                        \A x \in VoiceEmotion : table[x] <= t
            first == CHOOSE i \in 1..Len(VoiceOrder) :
                        /\ table[VoiceOrder[i]] = best
                        /\ \A j \in 1..(i - 1) : table[VoiceOrder[j]] < best
        IN  /\ clsResult.emotion = VoiceOrder[first]
            /\ DToTenths(clsResult.confidence) = Min(10, best)

\* C21: in every reachable state the confidence of the held vocal estimate, of
\* the held facial estimate and of the fused estimate, when present, lies in
\* [0, 1], the face detector returning per-label scores in [0, 1].
C21_ConfidencesInUnitInterval ==
    /\ hook.emotionState.facial # NULL =>
            /\ hook.emotionState.facial.confidence >= 0
            /\ hook.emotionState.facial.confidence <= One
    /\ hook.emotionState.voice # NULL =>
            /\ hook.emotionState.voice.confidence >= 0
            /\ hook.emotionState.voice.confidence <= One
    /\ hook.emotionState.combined # NULL =>
            /\ hook.emotionState.combined.confidence >= 0
            /\ hook.emotionState.combined.confidence <= One

\* Both modalities hold "sad" with a boosted sum above 1, and the fused
\* confidence is 1.
C21_Witness ==
    /\ hook.emotionState.facial # NULL
    /\ hook.emotionState.voice # NULL
    /\ hook.emotionState.facial.dominant = "sad"
    /\ hook.emotionState.voice.emotion = "sad"
    /\ hook.emotionState.voice.confidence = One
    /\ 12 * (55 * hook.emotionState.facial.confidence
             + 38 * hook.emotionState.voice.confidence) > 1000 * One
    /\ hook.emotionState.combined.confidence = One

\* C22: when the backend call of a send fails, the last error is set to a
\* non-null string, isProcessing is false once the send completes, the
\* messages appended so far stay in the message sequence and no assistant
\* message is appended for that send.
C22_BackendFailureSurfaced ==
    [][last'.op = "backendFailed" =>
            /\ hook'.error # NullStr
            /\ ~hook'.isProcessing
            /\ hook'.messages = hook.messages
            /\ ~last'.threw]_vars

\* A send has failed: its user message is the only message, the error is set
\* and the processing flag is clear.
C22_Witness ==
    /\ last.op = "backendFailed"
    /\ Len(hook.messages) = 1
    /\ hook.messages[1].role = "user"
    /\ hook.error = ErrSend
    /\ ~hook.isProcessing
    /\ env.backendCalls = 0

\* s is a prefix of t.
IsPrefix(s, t) == Len(s) <= Len(t) /\ SubSeq(t, 1, Len(s)) = s

\* C24: the message sequence is append-only: every operation except
\* clearMessages leaves the previous sequence as an unchanged prefix of the new
\* one, and clearMessages replaces the sequence by the empty sequence.
C24_MessagesAppendOnly ==
    [][IF last'.op = "clearMessages"
       THEN hook'.messages = <<>>
       ELSE IsPrefix(hook.messages, hook'.messages)]_vars

\* A reply has been appended behind the user message it answers.
C24_Witness ==
    /\ last.op = "backendReply"
    /\ Len(hook.messages) = 2
    /\ hook.messages[1].role = "user"
    /\ hook.messages[2].role = "assistant"

\* C25: every user message appended by a send carries as emotionContext the
\* facial and vocal estimates held in the session state at the moment of the
\* send, also an estimate that arrived immediately before the send, and every
\* assistant message carries no emotionContext.
C25_ContextIsHeldEstimates ==
    [][/\ last'.requests = 1 =>
            /\ hook'.messages[Len(hook'.messages)].role = "user"
            /\ hook'.messages[Len(hook'.messages)].emotionContext =
                    [facial |-> hook.emotionState.facial,
                     voice |-> hook.emotionState.voice]
       /\ \A i \in 1..Len(hook'.messages) :
            hook'.messages[i].role = "assistant" =>
                hook'.messages[i].emotionContext = NULL]_vars

\* C26: the conversationHistory of every backend request, whether the send was
\* a direct sendMessage call or came from a final transcript segment, consists
\* of the role and content of the last 10 messages of the message sequence as
\* it stands when the send is made, all of them when fewer than 10 exist.
C26_HistoryIsLastTenMessages ==
    [][chatOut'.requests = 1 =>
            chatOut'.history = ConversationHistory(chat.messages)]_vars

\* A step in which initialize fails: loading the face models fails, or the
\* models are loaded and initializing the voice service fails.
InitializeFails ==
    /\ last'.op \in {"initialize:faceFailed", "initialize:faceReady"}
    /\ hook'.initPc = "idle"

C28_EventReplacesOwnModality ==
    [][/\ last'.facialEmits = 1 =>
            /\ last'.estimate # NULL
            /\ hook'.emotionState.facial = last'.estimate
            /\ hook'.emotionState.voice = hook.emotionState.voice
       /\ last'.voiceEmits = 1 =>
            /\ last'.estimate # NULL
            /\ hook'.emotionState.voice = last'.estimate
            /\ hook'.emotionState.facial = hook.emotionState.facial]_vars

\* A vocal estimate has arrived while a facial estimate was held: the new
\* vocal estimate is held beside the facial one.
C28_Witness ==
    /\ last.op = "voiceTimer"
    /\ last.voiceEmits = 1
    /\ hook.emotionState.voice = last.estimate
    /\ hook.emotionState.voice.emotion = "happy"
    /\ hook.emotionState.facial # NULL
    /\ hook.emotionState.facial.dominant = "sad"

\* C29: the facial loop emits an estimate for a completed detection only when
\* the detection's top per-label score is at least the minimum confidence 0.5;
\* a detection below the threshold, or with no face found, emits nothing,
\* changes no held estimate and raises no error.
C29_EmitsOnlyAtOrAboveThreshold ==
    [][last'.op = "detectionDone" =>
            /\ last'.facialEmits <= 1
            /\ last'.facialEmits = 1 =>
                    /\ last'.score >= Pct(50)
                    /\ last'.estimate.confidence = last'.score
            /\ last'.score < Pct(50) =>
                    /\ last'.facialEmits = 0
                    /\ hook'.emotionState = hook.emotionState
            /\ ~last'.threw
            /\ hook'.error = hook.error]_vars

\* A detection whose top score equals the minimum confidence has been emitted.
C29_Witness ==
    /\ last.op = "detectionDone"
    /\ last.score = Pct(50)
    /\ last.facialEmits = 1
    /\ hook.emotionState.facial = [dominant |-> "happy", confidence |-> Pct(50)]

\* history is base with exactly one sample x pushed onto it: appended at the
\* end, the oldest sample leaving when the cap is exceeded.
PushedOne(base, history, x) ==
    /\ history # <<>>
    /\ history[Len(history)] = x
    /\ \/ Len(base) < 20 /\ SubSeq(history, 1, Len(history) - 1) = base
       \/ Len(base) = 20 /\ SubSeq(history, 1, Len(history) - 1) = Tail(base)

\* C30: a vocal tick whose energy is not greater than 0.1 leaves both
\* variation histories unchanged and emits no estimate, and the next tick is
\* still scheduled; a tick whose energy is greater than 0.1 appends exactly
\* one sample to each history and emits exactly one estimate.
C30_EnergyGate ==
    [][vocalOut'.tick.kind = "frame" =>
        LET pitchBase == IF vocalOut'.op = "startListening" THEN <<>>
                         ELSE vocal.pitchHistory
            volumeBase == IF vocalOut'.op = "startListening" THEN <<>>
                          ELSE vocal.volumeHistory
        IN  IF vocalOut'.tick.energy > 10
            THEN /\ samplesRead' = samplesRead + 1
                 /\ PushedOne(pitchBase, vocal'.pitchHistory, PitchOf(samplesRead'))
                 /\ PushedOne(volumeBase, vocal'.volumeHistory,
                              VolumeOf(samplesRead'))
                 /\ vocalOut'.emitted
                 /\ ~vocalOut'.threw
            ELSE /\ samplesRead' = samplesRead
                 /\ vocal'.pitchHistory = pitchBase
                 /\ vocal'.volumeHistory = volumeBase
                 /\ ~vocalOut'.emitted
                 /\ ~vocalOut'.threw
                 /\ vocal'.analysisInterval]_vars

\* A tick has read a frame whose energy is exactly 0.1: the histories keep
\* their two samples, nothing is emitted and the next tick is scheduled.
C30_Witness ==
    /\ vocalOut.op = "tick"
    /\ vocalOut.tick = [kind |-> "frame", energy |-> 10]
    /\ ~vocalOut.emitted
    /\ Len(vocal.pitchHistory) = 2
    /\ Len(vocal.volumeHistory) = 2
    /\ vocal.analysisInterval

\* C27: detectPitch applied to a buffer of pure silence, every byte sample at
\* the midpoint 128, finds no lag with positive correlation and returns
\* pitch 0.
C27_SilenceHasPitchZero ==
    (/\ pitchInput # NotCalled
     /\ \A i \in 1..Len(pitchInput.timeData) : pitchInput.timeData[i] = 128)
    => /\ pitchResult.bestLag = 0
       /\ pitchResult.maxCorrelation = 0
       /\ pitchResult.pitch = ZeroPitch

\* detectPitch has run on a silent buffer at a sample rate whose lags fit the
\* buffer, so that correlations were computed, and has returned pitch 0.
C27_Witness ==
    /\ pitchInput # NotCalled
    /\ pitchInput.timeData = ConstantBuffer(128)
    /\ pitchInput.sampleRate = 8000
    /\ 2 * (pitchInput.sampleRate \div 500) < Len(pitchInput.timeData)
    /\ pitchResult.pitch = ZeroPitch

\* The step is a startListening call in which recognition.start() was invoked
\* on a recognizer that was not idle, and so threw.
StartThrew ==
    /\ last'.op = "startListening"
    /\ last'.recStarts > 0
    /\ env.recState # "idle"

\* C31: when the recognizer's start throws during a transcription start, the
\* should-be-transcribing flag is cleared and the error reaches the caller or
\* the session's last-error state, so that the session does not report that
\* it is listening while transcription is not running.
C31_StartFailureSurfaced ==
    [][StartThrew =>
            /\ ~voice'.isTranscribing
            /\ (last'.threw \/ hook'.error # NullStr)
            /\ ~hook'.isListening]_vars

\* C32: a successful initialize ends with isInitialized, isCameraActive,
\* isMicActive and isFaceDetectionActive true and the facial loop running,
\* while isListening stays as it was and neither the vocal loop nor
\* transcription is started.
C32_InitializeEndsReady ==
    [][last'.op = "initialize:voiceReady" =>
            /\ hook'.isInitialized
            /\ hook'.isCameraActive
            /\ hook'.isMicActive
            /\ hook'.isFaceDetectionActive
            /\ face'.isDetecting
            /\ hook'.isListening = hook.isListening
            /\ voice'.isListening = voice.isListening
            /\ voice'.isTranscribing = voice.isTranscribing
            /\ last'.recStarts = 0]_vars

\* C33: startListening on an idle vocal loop moves it to running and empties
\* both histories before the first tick, so that after the call they hold
\* nothing but the sample of that tick, if it accepted one; startListening on
\* a running loop changes nothing, and the histories are not reset.
C33_StartResetsHistories ==
    [][vocalOut'.op = "startListening" =>
            IF ~vocal.isListening
            THEN /\ vocal'.isListening
                 /\ Len(vocal'.pitchHistory) = samplesRead' - samplesRead
                 /\ Len(vocal'.volumeHistory) = samplesRead' - samplesRead
                 /\ \A i \in 1..Len(vocal'.pitchHistory) :
                       /\ vocal'.pitchHistory[i] = PitchOf(samplesRead + i)
                       /\ vocal'.volumeHistory[i] = VolumeOf(samplesRead + i)
            ELSE /\ vocal' = vocal
                 /\ samplesRead' = samplesRead
                 /\ ~vocalOut'.emitted]_vars

\* The loop was started after earlier runs had accepted samples, and its
\* histories hold only the sample of the first tick of this run.
C33_Witness ==
    /\ vocalOut.op = "startListening"
    /\ vocalOut.emitted
    /\ vocal.isListening
    /\ samplesRead >= 3
    /\ vocal.pitchHistory = <<PitchOf(samplesRead)>>
    /\ vocal.volumeHistory = <<VolumeOf(samplesRead)>>

\* C34: when the Speak control was pressed while the session was not yet
\* initialized, the wait for initialization terminates: once initialization
\* has completed, a check of the wait resolves it and startListening is
\* called.
C34_WaitEndsOnceInitialized ==
    [][(/\ demoOut'.op = "checkInit"
        /\ ~demoOut'.closureInitialized
        /\ demo.isInitialized) =>
            /\ demoOut'.resolved
            /\ demoOut'.startListeningCalls = 1]_vars

\* C35: for every order of startListening calls, stopListening calls and
\* timer firings the vocal loop has at most one scheduled tick pending, and
\* no vocal estimate is emitted while the service's isListening is false.
C35_OneTickAndNoIdleEmission ==
    /\ voice.lostTimers + (IF voice.analysisInterval THEN 1 ELSE 0) <= 1
    /\ last.voiceEmits > 0 => voice.isListening

\* A tick run by the timer of a listening service has emitted an estimate
\* and scheduled the next tick, the only one pending.
C35_Witness ==
    /\ last.op = "voiceTimer"
    /\ last.voiceEmits = 1
    /\ voice.isListening
    /\ voice.analysisInterval
    /\ voice.lostTimers = 0

\* C36: whenever the voice service's isListening is true, a next tick of the
\* vocal loop is scheduled (ticks run to their end within one step), for
\* every order of initialize, startListening, stopListening and dispose.
C36_ListeningHasTick ==
    voice.isListening => (voice.analysisInterval \/ voice.lostTimers > 0)

\* C37: whenever at least one backend call issued by sendMessage is
\* outstanding, isProcessing is true, also when two sends overlap.
C37_ProcessingWhileOutstanding ==
    env.backendCalls > 0 => hook.isProcessing

\* C38: in every reachable state the coordinator's flags mirror the services
\* they report on: isFaceDetectionActive is true exactly when the face
\* service's isDetecting is, and isListening exactly when the voice service's
\* isListening is.
C38_FlagsMirrorServices ==
    /\ hook.isFaceDetectionActive = face.isDetecting
    /\ hook.isListening = voice.isListening

\* The number of messages of the role among the first n messages.
CountRole(msgs, n, role) ==
    Cardinality({i \in 1..n : msgs[i].role = role})

\* C39: in every reachable state the message sequence holds at most as many
\* assistant messages as user messages, and every assistant message is
\* preceded by the user message of its own send: every prefix of the
\* sequence holds at least as many user messages as assistant messages.
C39_RepliesFollowTheirSends ==
    \A n \in 0..Len(hook.messages) :
        CountRole(hook.messages, n, "assistant")
            <= CountRole(hook.messages, n, "user")

\* C40: the recognizer's start is never invoked while the recognizer is
\* already running: no step that invokes recognition.start() finds the
\* recognizer running, the firing of a restart timer that was scheduled
\* before a stopTranscription included.
C40_StartNeverWhileRunning ==
    [][last'.recStarts > 0 => env.recState # "running"]_vars

====
